---------------------------- MODULE Spec2Model ----------------------------
(***************************************************************************)
(* Model of the condition compiler and evaluator of tsatool-app:           *)
(*   src/tsa/condition.py        class Condition                           *)
(*   src/tsa/cond_collection.py  class CondCollection                      *)
(*   src/tsa.py                  to_pg_identifier, eliminate_umlauts       *)
(*                                                                         *)
(* Python strings are sequences of one-character strings.  A Python        *)
(* exception is the field exc of an outcome record ("none" when the code   *)
(* ran to its end); a name that no scope binds raises NameError and an     *)
(* attribute the object does not carry raises AttributeError, as in        *)
(* Python.  Every method is an entry point of the library: the receiver    *)
(* of a method ranges over the values its attributes can hold.             *)
(***************************************************************************)
EXTENDS Integers, Sequences, FiniteSets, TLC

VARIABLES
    tuples,     \* validate_order: the argument, a list of (role, element)
    vo,         \* validate_order: the outcome of the call
    cnd,        \* make_blocks: the Condition object (self)
    mb,         \* make_blocks: the outcome of the call
    coll,       \* the CondCollection object
    session,    \* the temporary tables of the database session, with rows
    sql,        \* every statement sent to the database so far
    last,       \* the last call: its arguments, outcome and inner calls
    nops,       \* number of calls made
    source,     \* the interval source: the rows each Block's query yields
    ident       \* to_pg_identifier: the argument and the outcome of the call

orderVars == <<tuples, vo>>
parseVars == <<cnd, mb>>
collVars == <<coll, session, sql, last, nops>>
dataVars == <<source, ident>>
vars == <<tuples, vo, cnd, mb, coll, session, sql, last, nops, source, ident>>

-----------------------------------------------------------------------------
(* Bounds *)

MaxTokens == 5      \* longest list handed to validate_order
MaxLex == 3         \* most lexemes in a condition string
MaxConds == 2       \* most Conditions in a collection
MaxOps == 1         \* most calls made on a collection

-----------------------------------------------------------------------------
(* Generic helpers *)

Range(s) == {s[i] : i \in 1..Len(s)}

SeqsUpTo(S, n) == UNION {[1..k -> S] : k \in 0..n}

-----------------------------------------------------------------------------
(* Python strings: sequences of one-character strings.  The letters that   *)
(* are not ASCII are written by name ("a_uml" is a-umlaut, "a_ring" is      *)
(* a-ring, "e_acute" is e-acute).                                          *)

LowerSeq == <<"a","b","c","d","e","f","g","h","i","j","k","l","m",
              "n","o","p","q","r","s","t","u","v","w","x","y","z">>
UpperSeq == <<"A","B","C","D","E","F","G","H","I","J","K","L","M",
              "N","O","P","Q","R","S","T","U","V","W","X","Y","Z">>
DigitSeq == <<"0","1","2","3","4","5","6","7","8","9">>

IndexOf(seq, c) == CHOOSE i \in 1..Len(seq) : seq[i] = c

IsSpace(c) == c = " "
IsDigit(c) == c \in Range(DigitSeq)
IsAlpha(c) == c \in Range(LowerSeq) \cup Range(UpperSeq)
                   \cup {"a_uml", "o_uml", "A_uml", "O_uml", "a_ring", "e_acute"}
IsAlnum(c) == IsAlpha(c) \/ IsDigit(c)

\* str.lower() on one character
LowerChar(c) ==
    IF c \in Range(UpperSeq) THEN LowerSeq[IndexOf(UpperSeq, c)]
    ELSE IF c = "A_uml" THEN "a_uml"
    ELSE IF c = "O_uml" THEN "o_uml"
    ELSE c

lower(s) == [i \in 1..Len(s) |-> LowerChar(s[i])]

\* str.count(c) for a one-character c
count(s, c) == Cardinality({i \in 1..Len(s) : s[i] = c})

RECURSIVE lstrip(_)
lstrip(s) == IF s # <<>> /\ IsSpace(Head(s)) THEN lstrip(Tail(s)) ELSE s

RECURSIVE rstrip(_)
rstrip(s) ==
    IF s # <<>> /\ IsSpace(s[Len(s)]) THEN rstrip(SubSeq(s, 1, Len(s) - 1)) ELSE s

strip(s) == rstrip(lstrip(s))

\* str.split() without argument: the words between runs of whitespace
RECURSIVE split_ws(_, _, _)
split_ws(s, i, cur) ==
    IF i > Len(s) THEN (IF cur = <<>> THEN <<>> ELSE <<cur>>)
    ELSE IF IsSpace(s[i])
    THEN (IF cur = <<>> THEN <<>> ELSE <<cur>>) \o split_ws(s, i + 1, <<>>)
    ELSE split_ws(s, i + 1, Append(cur, s[i]))

\* sep.join(words)
RECURSIVE join(_, _)
join(sep, words) ==
    IF words = <<>> THEN <<>>
    ELSE IF Len(words) = 1 THEN words[1]
    ELSE words[1] \o sep \o join(sep, Tail(words))

\* the normalized predicate: lowercase, single spaces
Normalized(el) == lower(join(<<" ">>, split_ws(el, 1, <<>>)))

\* sub in s
contains(s, sub) ==
    \E i \in 1..(Len(s) - Len(sub) + 1) : SubSeq(s, i, i + Len(sub) - 1) = sub

startswith_at(s, i, w) ==
    i + Len(w) - 1 <= Len(s) /\ SubSeq(s, i, i + Len(w) - 1) = w

\* str(n) for n >= 0
RECURSIVE str_int(_)
str_int(n) ==
    IF n < 10 THEN <<DigitSeq[n + 1]>>
    ELSE str_int(n \div 10) \o <<DigitSeq[(n % 10) + 1]>>

\* eliminate_umlauts: the four replacements
EliminateChar(c) ==
    IF c = "a_uml" THEN "a"
    ELSE IF c = "A_uml" THEN "A"
    ELSE IF c = "o_uml" THEN "o"
    ELSE IF c = "O_uml" THEN "O"
    ELSE c

\* no replacement at all
keep_umlauts(x) == x

eliminate_umlauts(x) == [i \in 1..Len(x) |-> EliminateChar(x[i])]

MaxIdLen == 40

\* to_pg_identifier: the outcome is exc and, when exc = "none", val
to_pg_identifier(x0) ==
    LET x == eliminate_umlauts(lower(strip(x0)))
    IN  IF x = <<>> THEN [exc |-> "IndexError", val |-> <<>>]
        ELSE IF IsDigit(x[1]) THEN [exc |-> "ValueError", val |-> <<>>]
        ELSE IF Len(x) > MaxIdLen THEN [exc |-> "ValueError", val |-> <<>>]
        ELSE IF \E i \in 1..Len(x) : ~(IsAlnum(x[i]) \/ x[i] = "_")
        THEN [exc |-> "ValueError", val |-> <<>>]
        ELSE [exc |-> "none", val |-> x]

IdIdle == [called |-> FALSE, x |-> <<>>, exc |-> "none", val |-> <<>>]

-----------------------------------------------------------------------------
(* Names bound at module level of src/tsa/condition.py.  The dict "tokens" *)
(* is commented out (lines 214-218) and "self" is no module name.          *)

ModuleGlobals ==
    {"logging", "re", "pandas", "psycopg2", "plt", "mdates", "Block",
     "TsaErrCollection", "to_pg_identifier", "eliminate_umlauts",
     "trunc_str", "rcParams", "timedelta", "log", "Condition"}

-----------------------------------------------------------------------------
(* Condition.validate_order: a static method, so its parameters and locals *)
(* are the only other names in scope.                                      *)

Roles == {"open_par", "close_par", "andor", "not", "block"}

allowed_first == {"open_par", "not", "block"}

allowed_pairs ==
    {<<"open_par", "open_par">>, <<"open_par", "not">>, <<"open_par", "block">>,
     <<"close_par", "close_par">>, <<"close_par", "andor">>,
     <<"andor", "open_par">>, <<"andor", "not">>, <<"andor", "block">>,
     <<"not", "open_par">>, <<"not", "block">>,
     <<"block", "close_par">>, <<"block", "andor">>}

allowed_last == {"close_par", "block"}

validate_order_names ==
    {"tuples", "success", "allowed_first", "allowed_pairs", "allowed_last",
     "last_i", "i", "el"}

\* self.errors.add(msg=..., log_add='error') inside validate_order
vo_errors_add(st, err) ==
    IF "self" \in validate_order_names \cup ModuleGlobals
    THEN [st EXCEPT !.errors = Append(@, err)]
    ELSE [st EXCEPT !.exc = "NameError"]

\* One pass of the for loop (i is 1-based here, last_i likewise).
vo_body(tpl, i, st) ==
    LET el == tpl[i]
        last_i == Len(tpl)
        s1 == IF i = 1
              THEN LET a == IF el[1] \notin allowed_first
                            THEN vo_errors_add(st, [kind |-> "first", el |-> el[2]])
                            ELSE st
                   IN  IF a.exc # "none" THEN a ELSE [a EXCEPT !.success = FALSE]
              ELSE IF i = last_i
              THEN LET a == IF el[1] \notin allowed_last
                            THEN vo_errors_add(st, [kind |-> "last", el |-> el[2]])
                            ELSE st
                   IN  IF a.exc # "none" THEN a ELSE [a EXCEPT !.success = FALSE]
              ELSE st
    IN  IF s1.exc # "none" THEN s1
        ELSE IF i < last_i
        THEN LET b == IF <<el[1], tpl[i+1][1]>> \notin allowed_pairs
                      THEN vo_errors_add(s1, [kind |-> "pair", el |-> el[2],
                                              next |-> tpl[i+1][2]])
                      ELSE s1
             IN  IF b.exc # "none" THEN b ELSE [b EXCEPT !.success = FALSE]
        ELSE s1

RECURSIVE vo_loop(_, _, _)
vo_loop(tpl, i, st) ==
    IF i > Len(tpl) \/ st.exc # "none" THEN st
    ELSE vo_loop(tpl, i + 1, vo_body(tpl, i, st))

\* The outcome: exc, the value returned (success) and the errors added.
validate_order(tpl) ==
    vo_loop(tpl, 1, [success |-> TRUE, exc |-> "none", errors |-> <<>>])

\* before the call
VoIdle == [called |-> FALSE, success |-> TRUE, exc |-> "none", errors |-> <<>>]

-----------------------------------------------------------------------------
(* unpack_logic and the Blocks.  unpack_logic and PrimaryBlock are those   *)
(* of src/tsa.py; the class Block that condition.py imports from .block    *)
(* is modelled from the specification (sections 3, 4.2, 4.3 and 4.5).      *)

\* s.split(sub): the pieces between the occurrences of sub, left to right
RECURSIVE split_sub(_, _, _, _)
split_sub(s, sub, i, cur) ==
    IF i > Len(s) THEN <<cur>>
    ELSE IF startswith_at(s, i, sub)
    THEN <<cur>> \o split_sub(s, sub, i + Len(sub), <<>>)
    ELSE split_sub(s, sub, i + 1, Append(cur, s[i]))

operators ==
    << <<" ", "=", " ">>, <<" ", "!", "=", " ">>, <<" ", ">", " ">>,
       <<" ", "<", " ">>, <<" ", ">", "=", " ">>, <<" ", "<", "=", " ">>,
       <<" ", "i", "n", " ">> >>

AllDigits(s) == \A i \in 1..Len(s) : IsDigit(s[i])

\* float(value) succeeds.  Decimal literals with sign, point and exponent,
\* and inf, infinity, nan; float() strips the surrounding whitespace itself.
IsDecimal(s) ==
    \E parts \in {split_sub(s, <<".">>, 1, <<>>)} :
        /\ Len(parts) \in {1, 2}
        /\ \A k \in 1..Len(parts) : AllDigits(parts[k])
        /\ \E k \in 1..Len(parts) : parts[k] # <<>>

Unsigned(s) == IF s # <<>> /\ s[1] \in {"+", "-"} THEN Tail(s) ELSE s

is_float(value) ==
    LET v == Unsigned(lower(strip(value)))
        ev == split_sub(v, <<"e">>, 1, <<>>)
    IN  \/ v \in {<<"i","n","f">>, <<"n","a","n">>,
                  <<"i","n","f","i","n","i","t","y">>}
        \/ IsDecimal(v)
        \/ /\ Len(ev) = 2
           /\ IsDecimal(ev[1])
           /\ Unsigned(ev[2]) # <<>> /\ AllDigits(Unsigned(ev[2]))

\* unpack_logic(raw_logic): exc and, when exc = "none", the four parts
unpack_logic(raw_logic) ==
    LET fail == [exc |-> "ValueError", station |-> <<>>, sensor |-> <<>>,
                 operator |-> <<>>, value |-> <<>>]
        logic_list == split_sub(raw_logic, <<"#">>, 1, <<>>)
    IN  IF Len(logic_list) # 2 THEN fail
        ELSE
        LET station == to_pg_identifier(logic_list[1])
            logic == lower(logic_list[2])
            found == {k \in 1..Len(operators) : contains(logic, operators[k])}
        IN  IF station.exc # "none" THEN [fail EXCEPT !.exc = station.exc]
            ELSE IF Cardinality(found) # 1 THEN fail
            ELSE
            LET op_included == operators[CHOOSE k \in found : TRUE]
                logic_parts == split_sub(logic, op_included, 1, <<>>)
                operator == strip(op_included)
            IN  IF Len(logic_parts) # 2 THEN fail
                ELSE
                LET sensor == to_pg_identifier(logic_parts[1])
                    value == strip(logic_parts[2])
                IN  IF sensor.exc # "none" THEN [fail EXCEPT !.exc = sensor.exc]
                    ELSE IF operator = <<"i", "n">>
                    THEN (IF value # <<>> /\ value[1] = "(" /\ value[Len(value)] = ")"
                          THEN [exc |-> "none", station |-> station.val,
                                sensor |-> sensor.val, operator |-> operator,
                                value |-> value]
                          ELSE fail)
                    ELSE IF is_float(value)
                    THEN [exc |-> "none", station |-> station.val,
                          sensor |-> sensor.val, operator |-> operator,
                          value |-> value]
                    ELSE fail

NoBlock == [raw_logic |-> <<>>, alias |-> <<>>, secondary |-> FALSE]

\* Block(master_alias, parent_site, order_nr, raw_logic): exc and the object.
\* A fragment with "#" is a predicate (a primary Block), any other fragment
\* must be an identifier and refers to another Condition (a secondary Block).
Block(master_alias, parent_site, order_nr, raw_logic) ==
    LET ma == to_pg_identifier(master_alias)
        alias == ma.val \o <<"_">> \o str_int(order_nr)
    IN  IF ma.exc # "none" THEN [exc |-> ma.exc, obj |-> NoBlock]
        ELSE IF contains(raw_logic, <<"#">>)
        THEN LET lg == unpack_logic(raw_logic)
             IN  IF lg.exc # "none" THEN [exc |-> lg.exc, obj |-> NoBlock]
                 ELSE [exc |-> "none",
                       obj |-> [raw_logic |-> raw_logic, alias |-> alias,
                                secondary |-> FALSE]]
        ELSE LET ref == to_pg_identifier(raw_logic)
             IN  IF ref.exc # "none" THEN [exc |-> ref.exc, obj |-> NoBlock]
                 ELSE [exc |-> "none",
                       obj |-> [raw_logic |-> raw_logic, alias |-> alias,
                                secondary |-> TRUE]]

-----------------------------------------------------------------------------
(* Condition.make_blocks.  The method works on a frame: the object (self), *)
(* its locals, and exc, the exception that ended it ("none" so far).       *)

W_and == <<"a", "n", "d">>
W_or == <<"o", "r">>
W_not == <<"n", "o", "t">>

\* Length of the match of the split pattern at position i of value, 0 if none:
\* [()] | (?<=\s)and(?=\s) | (?<=\s)or(?=\s) | (?<=\s)not(?=\s) | ^not(?=\s)
match_len(value, i) ==
    LET ws(j) == j >= 1 /\ j <= Len(value) /\ IsSpace(value[j])
    IN  IF value[i] \in {"(", ")"} THEN 1
        ELSE IF ws(i - 1) /\ startswith_at(value, i, W_and) /\ ws(i + 3) THEN 3
        ELSE IF ws(i - 1) /\ startswith_at(value, i, W_or) /\ ws(i + 2) THEN 2
        ELSE IF ws(i - 1) /\ startswith_at(value, i, W_not) /\ ws(i + 3) THEN 3
        ELSE IF i = 1 /\ startswith_at(value, i, W_not) /\ ws(i + 3) THEN 3
        ELSE 0

\* re.split(pattern, value) with its one capturing group
RECURSIVE re_split(_, _, _)
re_split(value, i, cur) ==
    IF i > Len(value) THEN <<cur>>
    ELSE LET n == match_len(value, i)
         IN  IF n > 0
             THEN <<cur, SubSeq(value, i, i + n - 1)>> \o re_split(value, i + n, <<>>)
             ELSE re_split(value, i + 1, Append(cur, value[i]))

\* lines 186-189: split, strip every element, drop the empty ones
split_condition(value) ==
    LET sp == re_split(value, 1, <<>>)
        stripped == [k \in 1..Len(sp) |-> strip(sp[k])]
    IN  SelectSeq(stripped, LAMBDA el : el # <<>>)

\* every fragment of the split as an element of its own
merge_none(sp, new_sp) == new_sp \o sp

\* lines 195-205: parentheses after "in" belong to the logic element
RECURSIVE merge_in(_, _)
merge_in(sp, new_sp) ==
    IF sp = <<>> THEN new_sp
    ELSE LET el == Head(sp)
             n == Len(new_sp)
         IN  IF new_sp = <<>> THEN merge_in(Tail(sp), <<el>>)
             ELSE IF Len(new_sp[n]) > 3
                     /\ SubSeq(new_sp[n], Len(new_sp[n]) - 2, Len(new_sp[n]))
                            = <<" ", "i", "n">>
             THEN merge_in(Tail(sp), [new_sp EXCEPT ![n] = @ \o <<" ">> \o el])
             ELSE IF contains(new_sp[n], <<" ", "i", "n", " ">>)
                     /\ new_sp[n][Len(new_sp[n])] # ")"
             THEN merge_in(Tail(sp), [new_sp EXCEPT ![n] = @ \o el])
             ELSE merge_in(Tail(sp), Append(new_sp, el))

\* the dict of lines 214-218, which the source holds in a comment
tokens ==
    (<<"(">> :> "open_par") @@ (<<")">> :> "close_par") @@
    (W_and :> "andor") @@ (W_or :> "andor") @@ (W_not :> "not")

make_blocks_names ==
    {"self", "is_valid", "value", "n_open", "n_close", "sp", "new_sp", "idfied",
     "i", "el", "bl", "existing_blocks", "eb", "blocks", "alias_parts"}

\* self.errors.add(...) inside a method of Condition
mb_errors_add(f, err) ==
    IF "errors" \in f.self.attrs
    THEN [f EXCEPT !.self.errors = Append(@, err)]
    ELSE [f EXCEPT !.exc = "AttributeError"]

\* lines 166-174
mb_parens(f) ==
    LET n_open == count(f.value, "(")
        n_close == count(f.value, ")")
    IN  IF n_open # n_close
        THEN LET g == mb_errors_add(f, [kind |-> "parens"])
             IN  IF g.exc # "none" THEN g ELSE [g EXCEPT !.is_valid = FALSE]
        ELSE f

\* lines 176-205
mb_split(f) ==
    LET value == strip(join(<<" ">>, split_ws(f.value, 1, <<>>)))
    IN  [f EXCEPT !.value = value,
                  !.new_sp = merge_in(split_condition(value), <<>>)]

\* lines 220-246, for one element of new_sp
mb_identify_el(f, el) ==
    IF "tokens" \notin make_blocks_names \cup ModuleGlobals
    THEN [f EXCEPT !.exc = "NameError"]
    ELSE IF el \in DOMAIN tokens
    THEN [f EXCEPT !.idfied = Append(@, <<tokens[el], el>>)]
    ELSE LET bl == Block(f.self.master_alias, f.self.site, f.i, el)
         IN  IF bl.exc # "none"
             THEN LET g == mb_errors_add(f, [kind |-> "block", el |-> el])
                  IN  IF g.exc # "none" THEN g ELSE [g EXCEPT !.is_valid = FALSE]
             ELSE LET existing_blocks == SelectSeq(f.idfied, LAMBDA t : t[1] = "block")
                      same == {j \in 1..Len(existing_blocks) :
                                  existing_blocks[j][2].raw_logic = bl.obj.raw_logic}
                  IN  IF same # {}
                      THEN LET j == CHOOSE j \in same : \A m \in same : j <= m
                           IN  [f EXCEPT !.idfied = Append(@, existing_blocks[j])]
                      ELSE [f EXCEPT !.idfied = Append(@, <<"block", bl.obj>>),
                                     !.i = @ + 1]

\* lines 219-246
RECURSIVE mb_identify(_, _)
mb_identify(f, k) ==
    IF k > Len(f.new_sp) \/ f.exc # "none" THEN f
    ELSE mb_identify(mb_identify_el(f, f.new_sp[k]), k + 1)

\* line 251: is_valid and Condition.validate_order(idfied)
mb_order(f) ==
    IF ~f.is_valid THEN f
    ELSE LET r == validate_order(f.idfied)
         IN  IF r.exc # "none" THEN [f EXCEPT !.exc = r.exc]
             ELSE [f EXCEPT !.is_valid = r.success,
                            !.self.errors = @ \o r.errors]

\* Code points order the characters of a string
CodeSeq ==
    <<" ", "!", "#", "(", ")", "+", ",", "-", ".">> \o DigitSeq
        \o <<"<", "=", ">">> \o UpperSeq \o <<"_">> \o LowerSeq
        \o <<"A_uml", "O_uml", "a_uml", "a_ring", "e_acute", "o_uml">>

Ord(c) == IndexOf(CodeSeq, c)

RECURSIVE str_less(_, _)
str_less(a, b) ==
    IF b = <<>> THEN FALSE
    ELSE IF a = <<>> THEN TRUE
    ELSE IF Head(a) = Head(b) THEN str_less(Tail(a), Tail(b))
    ELSE Ord(Head(a)) < Ord(Head(b))

\* sorted(blocks, key=lambda x: x.alias): stable
RECURSIVE sorted_by_alias(_)
sorted_by_alias(blocks) ==
    IF blocks = <<>> THEN <<>>
    ELSE LET rest == sorted_by_alias(SubSeq(blocks, 1, Len(blocks) - 1))
             x == blocks[Len(blocks)]
             before == SelectSeq(rest, LAMBDA y : ~str_less(x.alias, y.alias))
             after == SelectSeq(rest, LAMBDA y : str_less(x.alias, y.alias))
         IN  before \o <<x>> \o after

\* lines 256-259: the unique blocks in the order they appear
RECURSIVE unique_blocks(_, _)
unique_blocks(idfied, blocks) ==
    IF idfied = <<>> THEN blocks
    ELSE LET el == Head(idfied)
         IN  IF el[1] = "block" /\ el[2] \notin Range(blocks)
             THEN unique_blocks(Tail(idfied), Append(blocks, el[2]))
             ELSE unique_blocks(Tail(idfied), blocks)

\* lines 255-266
mb_unique(f) ==
    LET g == [f EXCEPT !.self.blocks = sorted_by_alias(unique_blocks(f.idfied, <<>>))]
    IN  IF Len(g.self.blocks) = 0
        THEN LET h == mb_errors_add(g, [kind |-> "noblocks"])
             IN  IF h.exc # "none" THEN h ELSE [h EXCEPT !.is_valid = FALSE]
        ELSE g

\* lines 272-282
alias_part(el) ==
    IF el[1] = "andor" THEN <<" ">> \o el[2] \o <<" ">>
    ELSE IF el[1] = "not" THEN el[2] \o <<" ">>
    ELSE IF el[1] \in {"open_par", "close_par"} THEN el[2]
    ELSE el[2].alias

mb_alias(f) ==
    [f EXCEPT !.self.alias_condition =
        join(<<>>, [k \in 1..Len(f.idfied) |-> alias_part(f.idfied[k])])]

\* lines 286-290
mb_secondary(f) ==
    [f EXCEPT !.self.secondary =
        IF \E k \in 1..Len(f.self.blocks) : f.self.blocks[k].secondary
        THEN "True" ELSE "False"]

\* lines 294-302
mb_finish(f) ==
    LET g == [f EXCEPT !.self.is_valid = f.is_valid]
    IN  IF ~f.is_valid THEN mb_errors_add(g, [kind |-> "invalid"]) ELSE g

\* The rest of make_blocks from a line on: a statement runs only when no
\* exception is under way
mb_from294(f) == IF f.exc # "none" THEN f ELSE mb_finish(f)
mb_from286(f) == IF f.exc # "none" THEN f ELSE mb_from294(mb_secondary(f))
mb_from272(f) == IF f.exc # "none" THEN f ELSE mb_from286(mb_alias(f))
mb_from255(f) == IF f.exc # "none" THEN f ELSE mb_from272(mb_unique(f))
mb_from251(f) == IF f.exc # "none" THEN f ELSE mb_from255(mb_order(f))
mb_from219(f) == IF f.exc # "none" THEN f ELSE mb_from251(mb_identify(f, 1))
mb_from176(f) == IF f.exc # "none" THEN f ELSE mb_from219(mb_split(f))
mb_from166(f) == mb_from176(mb_parens(f))

\* lines 162-164 and the locals of the method
mb_frame(self) ==
    [self |-> self, exc |-> "none", is_valid |-> TRUE,
     value |-> self.condition, new_sp |-> <<>>, idfied |-> <<>>, i |-> 0]

mb_result(f) == [self |-> f.self, exc |-> f.exc]

\* make_blocks(self): the object afterwards and the exception that left it
make_blocks(self) == mb_result(mb_from166(mb_frame(self)))

-----------------------------------------------------------------------------
(* The Condition object.  attrs holds the names of the attributes set so   *)
(* far; a field whose name is not in attrs does not exist yet.             *)

AttrsLine66 ==
    {"site", "master_alias", "id_string", "condition", "time_from",
     "time_until", "data_from", "data_until", "excel_row", "blocks",
     "alias_condition", "secondary", "is_valid"}

\* lines 69-81
AttrsLine81 ==
    AttrsLine66 \cup
    {"main_df", "tottime", "tottime_valid", "tottime_notvalid",
     "tottime_nodata", "percentage_valid", "percentage_notvalid",
     "percentage_nodata", "errors"}

\* An optional timestamp: None, or the time t
None == [k |-> "none"]
At(t) == [k |-> "t", t |-> t]

\* The analysis window of the collection (time_range), in time units
WindowFrom == 0
WindowUntil == 10

\* Condition.__init__, lines 44-65: the object on which line 66 calls
\* make_blocks.  self.errors is set on line 81 only; the result attributes
\* of lines 69-79 are listed with the values those lines give them.
NewCondition(site, master_alias, condition) ==
    [attrs |-> AttrsLine66,
     site |-> site, master_alias |-> master_alias,
     id_string |-> site \o <<"_">> \o master_alias,
     condition |-> condition,
     blocks |-> <<>>, alias_condition |-> <<>>, secondary |-> "None",
     is_valid |-> FALSE, errors |-> <<>>,
     data_from |-> None, data_until |-> None, main_df |-> <<>>,
     tottime |-> WindowUntil - WindowFrom,
     tottime_valid |-> 0, tottime_notvalid |-> 0,
     tottime_nodata |-> WindowUntil - WindowFrom,
     percentage_valid |-> <<0, 1>>, percentage_notvalid |-> <<0, 1>>,
     percentage_nodata |-> <<1, 1>>]

\* lines 69-81: the result attributes, and a fresh, empty error collection
finish_init(self) ==
    [self EXCEPT !.attrs = AttrsLine81, !.errors = <<>>]

\* attributes of a bound built-in method such as str.strip
BuiltinMethodAttrs ==
    {"__call__", "__name__", "__qualname__", "__self__", "__doc__",
     "__module__", "__text_signature__"}

MbIdle == [called |-> FALSE, exc |-> "none"]

NoCondition == NewCondition(<<>>, <<>>, <<>>)

\* lines 66-81, r being the outcome of make_blocks on line 66
ci_line66(r) ==
    IF r.exc # "none" THEN [exc |-> r.exc, self |-> NoCondition]
    ELSE [exc |-> "none", self |-> finish_init(r.self)]

\* lines 46-81, id being the outcome of to_pg_identifier on line 46.  Line 48
\* reads the attribute "lower" of the method str.strip.
ci_line46(site, master_alias, id, raw_condition) ==
    IF id.exc # "none" THEN [exc |-> id.exc, self |-> NoCondition]
    ELSE IF "lower" \notin BuiltinMethodAttrs
    THEN [exc |-> "AttributeError", self |-> NoCondition]
    ELSE ci_line66(make_blocks(
             [NewCondition(site, master_alias,
                           lower(strip(eliminate_umlauts(raw_condition))))
              EXCEPT !.id_string = id.val]))

\* lines 44-81, s and m being the outcomes of to_pg_identifier on lines 44, 45
ci_line44(s, m, raw_condition) ==
    IF s.exc # "none" THEN [exc |-> s.exc, self |-> NoCondition]
    ELSE IF m.exc # "none" THEN [exc |-> m.exc, self |-> NoCondition]
    ELSE ci_line46(s.val, m.val, to_pg_identifier(s.val \o <<"_">> \o m.val),
                   raw_condition)

\* Condition.__init__(site, master_alias, raw_condition, time_range): exc and
\* the object
Condition__init__(site, master_alias, raw_condition) ==
    ci_line44(to_pg_identifier(site), to_pg_identifier(master_alias),
              raw_condition)

-----------------------------------------------------------------------------
(* The database session: tables maps the name of every temporary table of  *)
(* the session to its rows (vfrom, vuntil, master); vdiff is vuntil-vfrom.  *)
(* A statement fails when the caller's input fail says so, and a CREATE    *)
(* also when a relation it reads does not exist (docstring, lines 319-320). *)

Stmt(kind, table) == [stmt |-> kind, table |-> table]

Without(tables, name) == [n \in DOMAIN tables \ {name} |-> tables[n]]

\* the relation a secondary Block reads: the table of the Condition it names
BlockSource(self, bl) == self.site \o <<"_">> \o Normalized(bl.raw_logic)

SourcesExist(self, tables) ==
    \A k \in 1..Len(self.blocks) :
        self.blocks[k].secondary => BlockSource(self, self.blocks[k]) \in DOMAIN tables

\* an errors.add that also makes the Condition invalid
cnd_errors_add_invalidating(self, err) ==
    [self |-> [self EXCEPT !.errors = Append(@, err), !.is_valid = FALSE],
     exc |-> "none"]

\* self.errors.add(...) on a Condition object
cnd_errors_add(self, err) ==
    IF "errors" \in self.attrs
    THEN [self |-> [self EXCEPT !.errors = Append(@, err)], exc |-> "none"]
    ELSE [self |-> self, exc |-> "AttributeError"]

\* The session as a transaction sees it: the tables as of the last commit,
\* the tables as the statements so far left them, and the names of those
\* created ON COMMIT DROP
Tx(tables) == [committed |-> tables, work |-> tables, temp |-> {}]

\* the Block temp tables of lines 334-337; their rows come from
\* Block.get_sql_def and are read through create_sql only
BlockTemp(self) ==
    [a \in {self.blocks[k].alias : k \in 1..Len(self.blocks)} |-> <<>>]

\* line 398: cur.execute(drop_sql)
execute_drop(tx, self) == [tx EXCEPT !.work = Without(@, self.id_string)]

\* line 400: cur.execute(create_sql), every statement done
execute_create(tx, self, rows) ==
    [tx EXCEPT !.work = (self.id_string :> rows) @@ BlockTemp(self) @@ @,
               !.temp = DOMAIN BlockTemp(self)]

\* line 400: cur.execute(create_sql) raising at the statement that creates
\* the table of the Condition, the Block temp tables made
execute_create_raising(tx, self) ==
    [tx EXCEPT !.work = BlockTemp(self) @@ @,
               !.temp = DOMAIN BlockTemp(self)]

\* lines 399 and 401: pg_conn.commit()
commit(tx) ==
    LET kept == [n \in DOMAIN tx.work \ tx.temp |-> tx.work[n]]
    IN  [committed |-> kept, work |-> kept, temp |-> {}]

\* the transaction is kept as it stands instead of being undone
no_rollback(tx) == [committed |-> tx.work, work |-> tx.work, temp |-> {}]

\* line 404: pg_conn.rollback()
rollback(tx) == [committed |-> tx.committed, work |-> tx.committed, temp |-> {}]

\* Condition.create_db_temptable, lines 325-407: the object, the tables of
\* the session, the statements sent and the exception afterwards.  rows are
\* the rows the query engine computes for the CREATE statement.
cdt_execute(self, pg_conn, tables, fail, rows) ==
    IF pg_conn = "None"
    THEN LET a == cnd_errors_add(self, [kind |-> "no_pg_conn"])
         IN  [self |-> a.self, tables |-> tables, sent |-> <<>>, exc |-> a.exc]
    ELSE IF fail = "drop"
    THEN LET a == cnd_errors_add(self, [kind |-> "create_failed"])
         IN  [self |-> a.self, tables |-> rollback(Tx(tables)).committed,
              sent |-> <<Stmt("DROP", self.id_string)>>, exc |-> a.exc]
    ELSE LET dropped == commit(execute_drop(Tx(tables), self))
             sent == <<Stmt("DROP", self.id_string), Stmt("CREATE", self.id_string)>>
         IN  IF fail = "create" \/ ~SourcesExist(self, dropped.committed)
             THEN LET a == cnd_errors_add(self, [kind |-> "create_failed"])
                  IN  [self |-> a.self,
                       tables |-> rollback(execute_create_raising(dropped, self)).committed,
                       sent |-> sent, exc |-> a.exc]
             ELSE [self |-> self,
                   tables |-> commit(execute_create(dropped, self, rows)).committed,
                   sent |-> sent, exc |-> "none"]

\* create_db_temptable with lines 322-323 left out
create_db_temptable_unguarded(self, pg_conn, tables, fail, rows) ==
    cdt_execute(self, pg_conn, tables, fail, rows)

\* Condition.create_db_temptable(pg_conn, verbose)
create_db_temptable(self, pg_conn, tables, fail, rows) ==
    IF ~self.is_valid
    THEN [self |-> self, tables |-> tables, sent |-> <<>>, exc |-> "none"]
    ELSE cdt_execute(self, pg_conn, tables, fail, rows)

\* the sum of vdiff over every row, whatever its master
RECURSIVE sum_all(_, _)
sum_all(df, master) ==
    IF df = <<>> THEN 0
    ELSE (Head(df).vuntil - Head(df).vfrom) + sum_all(Tail(df), master)

RECURSIVE sum_vdiff(_, _)
sum_vdiff(df, master) ==
    IF df = <<>> THEN 0
    ELSE (IF Head(df).master = master THEN Head(df).vuntil - Head(df).vfrom ELSE 0)
         + sum_vdiff(Tail(df), master)

MinOf(S) == CHOOSE x \in S : \A y \in S : x <= y
MaxOf(S) == CHOOSE x \in S : \A y \in S : x >= y

\* lines 426-439, for a DataFrame df with at least one row
summarize(self, df) ==
    LET data_from == MinOf({df[k].vfrom : k \in 1..Len(df)})
        data_until == MaxOf({df[k].vuntil : k \in 1..Len(df)})
        tottime == data_until - data_from
        valid == sum_vdiff(df, "True")
        notvalid == sum_vdiff(df, "False")
        nodata == tottime - valid - notvalid
        s1 == [self EXCEPT !.main_df = df,
                           !.data_from = At(data_from),
                           !.data_until = At(data_until),
                           !.tottime = tottime,
                           !.tottime_valid = valid,
                           !.tottime_notvalid = notvalid,
                           !.tottime_nodata = nodata]
    IN  IF tottime = 0
        THEN [self |-> s1, exc |-> "ZeroDivisionError"]
        ELSE [self |-> [s1 EXCEPT !.percentage_valid = <<valid, tottime>>,
                                  !.percentage_notvalid = <<notvalid, tottime>>,
                                  !.percentage_nodata = <<nodata, tottime>>],
              exc |-> "none"]

\* Condition.fetch_results_from_db(pg_conn)
fetch_results_from_db(self, pg_conn, tables, fail) ==
    IF ~self.is_valid
    THEN [self |-> self, sent |-> <<>>, exc |-> "none"]
    ELSE IF pg_conn = "None" \/ fail \/ self.id_string \notin DOMAIN tables
    THEN LET a == cnd_errors_add(self, [kind |-> "fetch_failed"])
         IN  [self |-> a.self,
              sent |-> IF pg_conn = "None" THEN <<>>
                       ELSE <<Stmt("SELECT", self.id_string)>>,
              exc |-> a.exc]
    ELSE LET r == summarize(self, tables[self.id_string])
         IN  [self |-> r.self, sent |-> <<Stmt("SELECT", self.id_string)>>,
              exc |-> r.exc]

-----------------------------------------------------------------------------
(* The CREATE statement of create_db_temptable (lines 334-383) as the query *)
(* engine evaluates it.  data maps the alias of every Block to the rows of  *)
(* the Block's temporary table (line 336): the range [vfrom, vuntil) of     *)
(* valid_r and, in the field master, the boolean column named by the alias. *)

\* && for ranges that include their upper bound
overlaps_closed(r1, r2) == r1.vfrom <= r2.vuntil /\ r2.vfrom <= r1.vuntil

\* r1.valid_r && r2.valid_r, both ranges being [vfrom, vuntil)
Overlaps(r1, r2) == r1.vfrom < r2.vuntil /\ r2.vfrom < r1.vuntil

\* master_seq, lines 357-365: the UNION of the lower and upper bounds of the
\* ranges of every Block table
master_seq(blocks, data) ==
    UNION {UNION {{data[blocks[i].alias][k].vfrom, data[blocks[i].alias][k].vuntil} :
                     k \in 1..Len(data[blocks[i].alias])} : i \in 1..Len(blocks)}

\* ORDER BY vt
RECURSIVE order_by(_)
order_by(S) ==
    IF S = {} THEN <<>>
    ELSE LET least == CHOOSE x \in S : \A y \in S : x <= y
         IN  <<least>> \o order_by(S \ {least})

\* master_ranges, lines 366-372: every vt with the one LEAD gives it, the
\* last vt (whose vuntil is NULL) left out; cols are the columns joined so far
master_ranges(blocks, data) ==
    LET vt == order_by(master_seq(blocks, data))
    IN  [i \in 1..(Len(vt) - 1) |->
            [vfrom |-> vt[i], vuntil |-> vt[i + 1], cols |-> <<>>]]

\* one row of master_ranges joined with the Block table t as JOIN would
inner_join_row(r, t) ==
    LET m == SelectSeq(t, LAMBDA b : Overlaps(r, b))
    IN  [k \in 1..Len(m) |-> [r EXCEPT !.cols = Append(@, m[k].master)]]

\* one row of master_ranges LEFT JOINed with the Block table t (line 375)
left_join_row(r, t) ==
    LET m == SelectSeq(t, LAMBDA b : Overlaps(r, b))
    IN  IF m = <<>> THEN <<[r EXCEPT !.cols = Append(@, "NULL")]>>
        ELSE [k \in 1..Len(m) |-> [r EXCEPT !.cols = Append(@, m[k].master)]]

RECURSIVE left_join(_, _)
left_join(rows, t) ==
    IF rows = <<>> THEN <<>>
    ELSE left_join_row(Head(rows), t) \o left_join(Tail(rows), t)

\* block_join_sql, lines 373-377: one LEFT JOIN for every Block, in order
RECURSIVE block_join(_, _, _)
block_join(rows, blocks, data) ==
    IF blocks = <<>> THEN rows
    ELSE block_join(left_join(rows, data[Head(blocks).alias]), Tail(blocks), data)

\* NOT, AND and OR of the query language on True, False and NULL
sql_not(a) == IF a = "NULL" THEN "NULL" ELSE IF a = "True" THEN "False" ELSE "True"

\* AND that reads NULL as False
sql_and_strict(a, b) == IF a = "True" /\ b = "True" THEN "True" ELSE "False"

sql_and(a, b) ==
    IF a = "False" \/ b = "False" THEN "False"
    ELSE IF a = "NULL" \/ b = "NULL" THEN "NULL"
    ELSE "True"

sql_or(a, b) ==
    IF a = "True" \/ b = "True" THEN "True"
    ELSE IF a = "NULL" \/ b = "NULL" THEN "NULL"
    ELSE "False"

\* the words of the expression on line 383: names, keywords and parentheses
RECURSIVE sql_lex(_, _)
sql_lex(s, cur) ==
    IF s = <<>> THEN (IF cur = <<>> THEN <<>> ELSE <<cur>>)
    ELSE IF IsSpace(Head(s))
    THEN (IF cur = <<>> THEN <<>> ELSE <<cur>>) \o sql_lex(Tail(s), <<>>)
    ELSE IF Head(s) \in {"(", ")"}
    THEN (IF cur = <<>> THEN <<>> ELSE <<cur>>) \o <<<<Head(s)>>>>
             \o sql_lex(Tail(s), <<>>)
    ELSE sql_lex(Tail(s), Append(cur, Head(s)))

\* ({self.alias_condition}) AS master, line 383, on one joined row: NOT binds
\* tighter than AND, AND tighter than OR; v is the value and rest the words
\* not yet read
RECURSIVE eval_or(_, _, _)
RECURSIVE eval_and(_, _, _)
RECURSIVE eval_not(_, _, _)
eval_not(toks, blocks, cols) ==
    IF Head(toks) = W_not
    THEN LET r == eval_not(Tail(toks), blocks, cols)
         IN  [v |-> sql_not(r.v), rest |-> r.rest]
    ELSE IF Head(toks) = <<"(">>
    THEN LET r == eval_or(Tail(toks), blocks, cols)
         IN  [v |-> r.v, rest |-> Tail(r.rest)]
    ELSE [v |-> cols[CHOOSE i \in 1..Len(blocks) : blocks[i].alias = Head(toks)],
          rest |-> Tail(toks)]

eval_and(toks, blocks, cols) ==
    LET l == eval_not(toks, blocks, cols)
    IN  IF l.rest # <<>> /\ Head(l.rest) = W_and
        THEN LET r == eval_and(Tail(l.rest), blocks, cols)
             IN  [v |-> sql_and(l.v, r.v), rest |-> r.rest]
        ELSE l

eval_or(toks, blocks, cols) ==
    LET l == eval_and(toks, blocks, cols)
    IN  IF l.rest # <<>> /\ Head(l.rest) = W_or
        THEN LET r == eval_or(Tail(l.rest), blocks, cols)
             IN  [v |-> sql_or(l.v, r.v), rest |-> r.rest]
        ELSE l

\* lines 347-355: the rows of the CREATE query of a single Block: vfrom,
\* vuntil, the Block column and master; vdiff is vuntil - vfrom
create_sql_one(self, data) ==
    LET t == data[self.blocks[1].alias]
    IN  [k \in 1..Len(t) |-> [vfrom |-> t[k].vfrom, vuntil |-> t[k].vuntil,
             cols |-> <<t[k].master>>, master |-> t[k].master]]

\* lines 356-383: the rows of the CREATE query over master_ranges
create_sql_many(self, data) ==
    LET joined == block_join(master_ranges(self.blocks, data), self.blocks, data)
        toks == sql_lex(self.alias_condition, <<>>)
    IN  [k \in 1..Len(joined) |-> [vfrom |-> joined[k].vfrom, vuntil |-> joined[k].vuntil,
             cols |-> joined[k].cols,
             master |-> eval_or(toks, self.blocks, joined[k].cols).v]]

\* the query over master_ranges whatever the number of Blocks
general_only(self, data) == create_sql_many(self, data)

\* lines 344-383: the rows of the table the CREATE query makes
create_sql(self, data) ==
    IF Len(self.blocks) = 1
    THEN create_sql_one(self, data)
    ELSE create_sql_many(self, data)

-----------------------------------------------------------------------------
(* CondCollection (src/tsa/cond_collection.py).  conditions is the         *)
(* OrderedDict: the Condition objects in the order they were added.        *)

\* the attributes __init__ sets (lines 49-67); there is no self.name and no
\* self.condtitions
CollAttrs ==
    {"time_from", "time_until", "time_range", "title", "created_timestamp",
     "conditions", "station_ids", "errors", "pg_conn", "statids_available",
     "temptables"}

CollModuleGlobals ==
    {"logging", "traceback", "pptx", "xl", "Condition", "strfdelta",
     "list_local_statids", "list_local_sensors", "TsaError", "datetime",
     "BytesIO", "OrderedDict", "Pt", "Cm", "RGBColor", "log", "CondCollection"}

\* add_error(msg): line 82 reads self.name
cc_add_error(c, msg) ==
    IF "name" \notin CollAttrs
    THEN [coll |-> c, exc |-> "AttributeError"]
    ELSE [coll |-> IF msg \in Range(c.errors) THEN c
                   ELSE [c EXCEPT !.errors = Append(@, msg)],
          exc |-> "none"]

Keys(c) == {c.conditions[k].id_string : k \in 1..Len(c.conditions)}

\* lines 194-199: the handler of the bare except
ac_except(c) == cc_add_error(c, [kind |-> "could_not_add"])

\* lines 181-184, r being the outcome of add_error
ac_reserved(c, r) == IF r.exc # "none" THEN ac_except(c) ELSE r

\* lines 179-193, candidate being the outcome of Condition(...) on line 174
ac_try(c, candidate) ==
    IF candidate.exc # "none" THEN ac_except(c)
    ELSE IF "condtitions" \notin CollAttrs THEN ac_except(c)
    ELSE IF candidate.self.id_string \in Keys(c)
    THEN ac_reserved(c, cc_add_error(c, [kind |-> "reserved",
                                         id |-> candidate.self.id_string]))
    ELSE IF "station_ids" \notin candidate.self.attrs THEN ac_except(c)
    ELSE [coll |-> [c EXCEPT !.conditions = Append(@, candidate.self)],
          exc |-> "none"]

\* add_condition(site, master_alias, raw_condition): the collection and the
\* exception afterwards
add_condition(c, site, master_alias, raw_condition) ==
    ac_try(c, Condition__init__(site, master_alias, raw_condition))

\* get_temporary_relations(): relfail is the failure of its query
get_temporary_relations(c, tables, relfail) ==
    IF c.pg_conn = "None"
    THEN LET r == cc_add_error(c, [kind |-> "no_db_connection"])
         IN  [coll |-> r.coll, exc |-> r.exc, sent |-> <<>>]
    ELSE IF relfail
    THEN LET r == cc_add_error(c, [kind |-> "query_failed"])
         IN  [coll |-> r.coll, exc |-> r.exc,
              sent |-> <<Stmt("SELECT", <<"information_schema">>)>>]
    ELSE [coll |-> [c EXCEPT !.temptables = DOMAIN tables], exc |-> "none",
          sent |-> <<Stmt("SELECT", <<"information_schema">>)>>]

create_db_temptable_params == {"self", "pg_conn", "verbose"}

cct_names == {"self", "verbose", "cndk", "e"}

\* create_db_temptable(pg_conn=..., verbose=..., src_tables=...), the call of
\* lines 258-260 and 269-272
cct_call(self, pg_conn, tables, fail, rows) ==
    IF "src_tables" \notin create_db_temptable_params
    THEN [self |-> self, tables |-> tables, sent |-> <<>>, exc |-> "TypeError"]
    ELSE create_db_temptable(self, pg_conn, tables, fail, rows)

\* what the trace of create_condition_temptables records of one call
Called(round, k, self, outcome, tables) ==
    [round |-> round, k |-> k, id |-> self.id_string, outcome |-> outcome,
     tables |-> DOMAIN tables]

\* lines 254-262, for the k-th Condition: the exception is logged, no more
cct_round1_el(g, k, fail, rows) ==
    LET self == g.coll.conditions[k]
    IN  IF self.secondary = "True" THEN g
        ELSE IF "cnd" \notin cct_names \cup CollModuleGlobals
        THEN [g EXCEPT !.trace =
                  Append(@, Called(1, k, self, "NameError", g.tables))]
        ELSE LET r == cct_call(self, g.coll.pg_conn, g.tables, fail, rows)
             IN  [g EXCEPT !.coll.conditions[k] = r.self,
                           !.tables = r.tables,
                           !.sent = @ \o r.sent,
                           !.trace = Append(@, Called(1, k, self, r.exc, g.tables))]

RECURSIVE cct_round1(_, _, _, _)
cct_round1(g, k, fail, rows) ==
    IF k > Len(g.coll.conditions) THEN g
    ELSE cct_round1(cct_round1_el(g, k, fail, rows), k + 1, fail, rows)

\* line 263 and line 273
cct_relations(g, relfail) ==
    LET r == get_temporary_relations(g.coll, g.tables, relfail)
    IN  [g EXCEPT !.coll = r.coll, !.exc = r.exc, !.sent = @ \o r.sent]

\* lines 267-273, for the k-th Condition
cct_round2_el(g, k, fail, rows, relfail) ==
    LET self == g.coll.conditions[k]
    IN  IF self.secondary # "True" THEN g
        ELSE LET r == cct_call(self, g.coll.pg_conn, g.tables, fail, rows)
                 h == [g EXCEPT !.coll.conditions[k] = r.self,
                                !.tables = r.tables,
                                !.sent = @ \o r.sent,
                                !.exc = r.exc,
                                !.trace = Append(@, Called(2, k, self, r.exc,
                                                           g.tables))]
             IN  IF h.exc # "none" THEN h ELSE cct_relations(h, relfail)

RECURSIVE cct_round2(_, _, _, _, _)
cct_round2(g, k, fail, rows, relfail) ==
    IF k > Len(g.coll.conditions) \/ g.exc # "none" THEN g
    ELSE cct_round2(cct_round2_el(g, k, fail, rows, relfail), k + 1,
                    fail, rows, relfail)

\* create_condition_temptables(): the collection, the tables of the session,
\* the statements sent, the calls made and the exception afterwards
create_condition_temptables(c, tables, fail, rows, relfail) ==
    LET g0 == [coll |-> c, tables |-> tables, sent |-> <<>>, trace |-> <<>>,
               exc |-> "none"]
        g1 == cct_round1(g0, 1, fail, rows)
        g2 == cct_relations(g1, relfail)
    IN  IF g2.exc # "none" THEN g2
        ELSE cct_round2(g2, 1, fail, rows, relfail)

\* fetch_all_results(): failing holds the Conditions whose query fails
RECURSIVE far_loop(_, _, _)
far_loop(g, k, failing) ==
    IF k > Len(g.coll.conditions) \/ g.exc # "none" THEN g
    ELSE LET self == g.coll.conditions[k]
             r == fetch_results_from_db(self, g.coll.pg_conn, g.tables,
                                        k \in failing)
         IN  far_loop([g EXCEPT !.coll.conditions[k] = r.self,
                                !.sent = @ \o r.sent,
                                !.exc = r.exc,
                                !.trace = Append(@, Called(0, k, self, r.exc,
                                                           g.tables))],
                      k + 1, failing)

fetch_all_results(c, tables, failing) ==
    far_loop([coll |-> c, tables |-> tables, sent |-> <<>>, trace |-> <<>>,
              exc |-> "none"], 1, failing)

set_sensor_ids_names == {"self", "pairs", "cur", "tb", "k", "v", "cndk", "i", "bl", "msg"}

\* set_sensor_ids(pairs), lines 208-224: without pairs and without a
\* connection add_error is called (lines 209-211); otherwise set_sensor_id is
\* called on every Block, and when one call raises (failing) the handler
\* formats its message with the name f (line 222).  A call that succeeds
\* leaves raw_logic, alias and secondary of the Block as they are.
set_sensor_ids(c, pairs, failing) ==
    IF pairs = "None" /\ c.pg_conn = "None"
    THEN LET r == cc_add_error(c, [kind |-> "no_db_connection"])
         IN  [coll |-> r.coll, exc |-> r.exc, sent |-> <<>>]
    ELSE [coll |-> c,
          exc |-> IF failing /\ (\E k \in 1..Len(c.conditions) :
                                    c.conditions[k].blocks # <<>>)
                      /\ "f" \notin set_sensor_ids_names \cup CollModuleGlobals
                  THEN "NameError" ELSE "none",
          sent |-> IF pairs = "None" THEN <<Stmt("SELECT", <<"sensors">>)>>
                   ELSE <<>>]

-----------------------------------------------------------------------------
(* Condition strings: up to MaxLex lexemes, written with one space between *)
(* them and none inside a parenthesis.                                     *)

P1 == <<"s", "1", "#", "x", " ", ">", " ", "1">>
P1alt == <<"S", "1", "#", "X", " ", " ", ">", " ", "1">>
P2 == <<"s", "2", "#", "y", " ", "<", " ", "2">>
PBad == <<"s", "1", "#", "x">>
PRef == <<"d", "2">>

Lexemes == {<<"(">>, <<")">>, W_and, W_or, W_not, P1, P1alt, P2, PBad, PRef}

RECURSIVE write(_)
write(lex) ==
    IF lex = <<>> THEN <<>>
    ELSE IF Len(lex) = 1 THEN lex[1]
    ELSE IF lex[1] = <<"(">> \/ lex[2] = <<")">>
    THEN lex[1] \o write(Tail(lex))
    ELSE lex[1] \o <<" ">> \o write(Tail(lex))

CondStrings == {write(lex) : lex \in SeqsUpTo(Lexemes, MaxLex)}

-----------------------------------------------------------------------------
(* Specification of a CondCollection with its database session.  The       *)
(* Conditions of the collection are objects as Condition.__init__ leaves    *)
(* them: every attribute of lines 44-81 set, with the value make_blocks     *)
(* gives it for the condition string of the object.                        *)

\* CondCollection.__init__, lines 59-67
NewCollection(pg_conn) ==
    [conditions |-> <<>>, errors |-> <<>>, pg_conn |-> pg_conn,
     temptables |-> {}]

NoCall ==
    [op |-> "none", k |-> 0, fail |-> "none", failing |-> {},
     arg |-> [master_alias |-> <<>>, raw_condition |-> <<>>],
     before |-> <<>>, tables |-> {}, exc |-> "none", sent |-> <<>>,
     trace |-> <<>>]

CollIdle ==
    /\ coll = NewCollection("None")
    /\ session = <<>>
    /\ sql = {}
    /\ last = NoCall
    /\ nops = 0

Site == <<"s">>

AliasSeq == <<"a", "b", "c", "d">>
Aliases == {<<AliasSeq[i]>> : i \in 1..MaxConds}

\* A Condition object after __init__: its only Block is the predicate P1, or
\* the reference ref to another Condition; an invalid one has a dangling "and"
ConditionObject(master_alias, ref, valid) ==
    LET logic == IF ref = <<>> THEN P1 ELSE ref
        bl == Block(master_alias, Site, 0, logic).obj
        condition == IF valid THEN logic ELSE write(<<logic, W_and>>)
    IN  [finish_init(NewCondition(Site, master_alias, condition))
         EXCEPT !.blocks = <<bl>>,
                !.alias_condition = IF valid THEN bl.alias
                                    ELSE write(<<bl.alias, W_and>>),
                !.secondary = IF bl.secondary THEN "True" ELSE "False",
                !.is_valid = valid]

\* the Conditions that can stand at place k of the collection: the k-th alias
\* names the k-th Condition added, which refers to no Condition or to one
\* under another alias
ConditionObjects(k) ==
    {ConditionObject(<<AliasSeq[k]>>, ref, valid) :
        ref \in ({<<>>} \cup Aliases) \ {<<AliasSeq[k]>>}, valid \in BOOLEAN}

\* the values of an OrderedDict keyed by id_string: no two share a key
Collections ==
    {cs \in SeqsUpTo(UNION {ConditionObjects(k) : k \in 1..MaxConds}, MaxConds) :
        \A k \in 1..Len(cs) : cs[k] \in ConditionObjects(k)}

Row(vfrom, vuntil, master) ==
    [vfrom |-> vfrom, vuntil |-> vuntil, master |-> master]

\* results the query engine can compute inside the analysis window
RowSets ==
    {<<Row(WindowFrom, WindowUntil, "True")>>,
     <<Row(WindowFrom + 2, WindowFrom + 6, "False"),
       Row(WindowFrom + 6, WindowUntil, "NULL")>>}

Init ==
    /\ \E cs \in Collections, pg_conn \in {"conn", "None"} :
           coll = [NewCollection(pg_conn) EXCEPT !.conditions = cs]
    /\ session = <<>>
    /\ sql = {}
    /\ last = NoCall
    /\ nops = 0
    /\ tuples = <<>>
    /\ vo = VoIdle
    /\ cnd = NewCondition(Site, <<"a">>, <<>>)
    /\ mb = MbIdle
    /\ ident = IdIdle
    /\ source = <<>>

\* condition strings handed to add_condition
AddStrings == {P1, <<>>, write(<<P1, W_and>>)}

\* what the database does with the statements of create_db_temptable: the
\* DROP fails, the CREATE fails, or the CREATE stores the rows of a result
EngineOutcomes ==
    {[fail |-> "drop", rows |-> <<>>], [fail |-> "create", rows |-> <<>>]}
        \cup {[fail |-> "none", rows |-> rows] : rows \in RowSets}

AddCondition ==
    /\ nops < MaxOps
    /\ \E master_alias \in Aliases, raw_condition \in AddStrings :
         LET r == add_condition(coll, Site, master_alias, raw_condition)
         IN  /\ coll' = r.coll
             /\ last' = [NoCall EXCEPT !.op = "add_condition",
                            !.arg = [master_alias |-> master_alias,
                                     raw_condition |-> raw_condition],
                            !.before = coll.conditions,
                            !.tables = DOMAIN session,
                            !.exc = r.exc]
    /\ nops' = nops + 1
    /\ UNCHANGED <<session, sql, orderVars, parseVars, dataVars>>

CreateDbTemptable ==
    /\ nops < MaxOps
    /\ \E k \in 1..Len(coll.conditions), e \in EngineOutcomes :
         LET r == create_db_temptable(coll.conditions[k], coll.pg_conn,
                                      session, e.fail, e.rows)
         IN  /\ coll' = [coll EXCEPT !.conditions[k] = r.self]
             /\ session' = r.tables
             /\ sql' = sql \cup Range(r.sent)
             /\ last' = [NoCall EXCEPT !.op = "create_db_temptable",
                            !.k = k, !.fail = e.fail,
                            !.before = coll.conditions,
                            !.tables = DOMAIN session,
                            !.exc = r.exc, !.sent = r.sent]
    /\ nops' = nops + 1
    /\ UNCHANGED <<orderVars, parseVars, dataVars>>

FetchResultsFromDb ==
    /\ nops < MaxOps
    /\ \E k \in 1..Len(coll.conditions), fail \in BOOLEAN :
         LET r == fetch_results_from_db(coll.conditions[k], coll.pg_conn,
                                        session, fail)
         IN  /\ coll' = [coll EXCEPT !.conditions[k] = r.self]
             /\ sql' = sql \cup Range(r.sent)
             /\ last' = [NoCall EXCEPT !.op = "fetch_results_from_db",
                            !.k = k, !.failing = IF fail THEN {k} ELSE {},
                            !.before = coll.conditions,
                            !.tables = DOMAIN session,
                            !.exc = r.exc, !.sent = r.sent]
    /\ nops' = nops + 1
    /\ UNCHANGED <<session, orderVars, parseVars, dataVars>>

CreateConditionTemptables ==
    /\ nops < MaxOps
    /\ \E e \in EngineOutcomes, relfail \in BOOLEAN :
         LET r == create_condition_temptables(coll, session, e.fail, e.rows,
                                              relfail)
         IN  /\ coll' = r.coll
             /\ session' = r.tables
             /\ sql' = sql \cup Range(r.sent)
             /\ last' = [NoCall EXCEPT !.op = "create_condition_temptables",
                            !.fail = IF relfail THEN "relations" ELSE e.fail,
                            !.before = coll.conditions,
                            !.tables = DOMAIN session,
                            !.exc = r.exc, !.sent = r.sent,
                            !.trace = r.trace]
    /\ nops' = nops + 1
    /\ UNCHANGED <<orderVars, parseVars, dataVars>>

FetchAllResults ==
    /\ nops < MaxOps
    /\ \E failing \in {{}} \cup {{k} : k \in 1..Len(coll.conditions)} :
         LET r == fetch_all_results(coll, session, failing)
         IN  /\ coll' = r.coll
             /\ sql' = sql \cup Range(r.sent)
             /\ last' = [NoCall EXCEPT !.op = "fetch_all_results",
                            !.failing = failing,
                            !.before = coll.conditions,
                            !.tables = DOMAIN session,
                            !.exc = r.exc, !.sent = r.sent,
                            !.trace = r.trace]
    /\ nops' = nops + 1
    /\ UNCHANGED <<session, orderVars, parseVars, dataVars>>

Next ==
    \/ AddCondition
    \/ CreateDbTemptable
    \/ FetchResultsFromDb
    \/ CreateConditionTemptables
    \/ FetchAllResults

Spec == Init /\ [][Next]_vars

-----------------------------------------------------------------------------
(* Specification of make_blocks on the object of line 66 *)

InitParse ==
    /\ \E c \in CondStrings : cnd = NewCondition(<<"s">>, <<"a">>, c)
    /\ mb = MbIdle
    /\ ident = IdIdle
    /\ tuples = <<>>
    /\ vo = VoIdle
    /\ CollIdle
    /\ source = <<>>

MakeBlocks ==
    /\ ~mb.called
    /\ LET r == make_blocks(cnd)
       IN  /\ cnd' = r.self
           /\ mb' = [called |-> TRUE, exc |-> r.exc]
    /\ UNCHANGED <<orderVars, collVars, dataVars>>

NextParse == MakeBlocks

SpecParse == InitParse /\ [][NextParse]_vars

-----------------------------------------------------------------------------
(* Specification of validate_order as a function of its argument *)

TokenKinds ==
    {<<"open_par", "(">>, <<"close_par", ")">>, <<"andor", "and">>,
     <<"andor", "or">>, <<"not", "not">>, <<"block", "b">>}

InitOrder ==
    /\ tuples \in SeqsUpTo(TokenKinds, MaxTokens)
    /\ vo = VoIdle
    /\ cnd = NewCondition(<<"s">>, <<"a">>, <<>>)
    /\ mb = MbIdle
    /\ ident = IdIdle
    /\ CollIdle
    /\ source = <<>>

ValidateOrder ==
    /\ ~vo.called
    /\ LET r == validate_order(tuples)
       IN  vo' = [called |-> TRUE, success |-> r.success, exc |-> r.exc,
                  errors |-> r.errors]
    /\ UNCHANGED <<tuples, parseVars, collVars, dataVars>>

NextOrder == ValidateOrder

SpecOrder == InitOrder /\ [][NextOrder]_vars

-----------------------------------------------------------------------------
(* What the docstring of validate_order (lines 94-116) asks of a list *)

FirstOk(tpl) == tpl[1][1] \in allowed_first
LastOk(tpl) == tpl[Len(tpl)][1] \in allowed_last
PairsOk(tpl) == \A i \in 1..(Len(tpl) - 1) : <<tpl[i][1], tpl[i+1][1]>> \in allowed_pairs
WellFormed(tpl) == tpl # <<>> => FirstOk(tpl) /\ LastOk(tpl) /\ PairsOk(tpl)

\* C6: validate_order returns True exactly when the first role is allowed
\* first, the last role is allowed last and every consecutive pair is one of
\* the 12 allowed pairs, and False otherwise.
C6_TrueIffWellFormed ==
    vo.called => (vo.exc = "none" /\ vo.success = WellFormed(tuples))

\* C7: for every non-empty list, also of length 1, a first-element error is
\* reported when the first role is not allowed first and a last-element error
\* when the last role is not allowed last.
C7_FirstLastReported ==
    (vo.called /\ tuples # <<>>) =>
        /\ ~FirstOk(tuples) => \E e \in Range(vo.errors) : e.kind = "first"
        /\ ~LastOk(tuples) => \E e \in Range(vo.errors) : e.kind = "last"

-----------------------------------------------------------------------------
(* What the specification (4.3-4.5) says of a condition string: its        *)
(* fragments, which of them are block-like, which cannot become a Block.   *)

Fragments(c) ==
    merge_in(split_condition(strip(join(<<" ">>, split_ws(c, 1, <<>>)))), <<>>)

BlockLike(el) == el \notin DOMAIN tokens

BlockFails(el) == BlockLike(el) /\ Block(<<"a">>, <<"s">>, 0, el).exc # "none"

GoodBlocks(c) ==
    {el \in Range(Fragments(c)) : BlockLike(el) /\ ~BlockFails(el)}

RoleOf(el) == IF BlockLike(el) THEN <<"block", el>> ELSE <<tokens[el], el>>

ParenDefect(c) == count(c, "(") # count(c, ")")
BlockDefect(c) == \E el \in Range(Fragments(c)) : BlockFails(el)
NoBlocksDefect(c) == GoodBlocks(c) = {}
AdjacencyDefect(c) ==
    LET fr == SelectSeq(Fragments(c), LAMBDA el : ~BlockFails(el))
    IN  ~WellFormed([k \in 1..Len(fr) |-> RoleOf(fr[k])])

Defect(c) ==
    ParenDefect(c) \/ BlockDefect(c) \/ NoBlocksDefect(c) \/ AdjacencyDefect(c)

Reported(kinds) == \E e \in Range(cnd.errors) : e.kind \in kinds

\* C3: after make_blocks has run on a condition with a parenthesis or
\* adjacency error, a fragment that is no Block, or no Block at all, the
\* method has finished and is_valid is False.
C3_DefectEndsInvalid ==
    (mb.called /\ Defect(cnd.condition)) =>
        (mb.exc = "none" /\ ~cnd.is_valid)

\* C8: whenever the counts of "(" and ")" differ, make_blocks records a
\* parenthesis error and the Condition ends Invalid, and the adjacency errors
\* of the same condition are reported as well.
C8_ParenErrorRecorded ==
    (mb.called /\ ParenDefect(cnd.condition)) =>
        /\ Reported({"parens"})
        /\ mb.exc = "none" /\ ~cnd.is_valid
        /\ AdjacencyDefect(cnd.condition) => Reported({"first", "last", "pair"})

\* C9: when a fragment cannot become a Block, the error is recorded, the
\* remaining fragments are still processed (their Blocks are created, their
\* errors recorded), the adjacency and no-Blocks checks still run, and the
\* Condition is marked Invalid at the end.
C9_NoShortCircuit ==
    (mb.called /\ BlockDefect(cnd.condition)) =>
        /\ \A el \in Range(Fragments(cnd.condition)) :
              BlockFails(el) =>
                  \E e \in Range(cnd.errors) : e.kind = "block" /\ e.el = el
        /\ {b.raw_logic : b \in Range(cnd.blocks)} = GoodBlocks(cnd.condition)
        /\ AdjacencyDefect(cnd.condition) => Reported({"first", "last", "pair"})
        /\ NoBlocksDefect(cnd.condition) => Reported({"noblocks"})
        /\ mb.exc = "none" /\ ~cnd.is_valid

\* C10: the unique Blocks of a Condition are as many as the distinct
\* normalized predicates or references among its block-like tokens: a
\* repeated predicate gives one Block, also when the occurrences differ in
\* whitespace or case.
C10_OneBlockPerPredicate ==
    (mb.called /\ ~Defect(cnd.condition)) =>
        Len(cnd.blocks)
            = Cardinality({Normalized(el) : el \in GoodBlocks(cnd.condition)})


-----------------------------------------------------------------------------
(* Claims about the collection and its database session *)

DbMethods == {"create_db_temptable", "fetch_results_from_db"}

\* lines 55-56 and 69-79: the result attributes as __init__ leaves them
ResultsInitial(c) ==
    /\ c.data_from = None
    /\ c.data_until = None
    /\ c.main_df = <<>>
    /\ c.tottime_valid = 0
    /\ c.tottime_notvalid = 0
    /\ c.tottime_nodata = c.tottime
    /\ c.percentage_valid = <<0, 1>>
    /\ c.percentage_notvalid = <<0, 1>>
    /\ c.percentage_nodata = <<1, 1>>

\* C1: when create_condition_temptables runs create_db_temptable on a
\* secondary Condition, the temporary table of every valid primary Condition
\* of the collection exists already (database connected, no statement failing)
C1_PrimariesBeforeSecondaries ==
    (last.op = "create_condition_temptables" /\ last.fail = "none"
        /\ coll.pg_conn = "conn") =>
    \A i \in 1..Len(last.trace) :
        last.trace[i].round = 2 =>
            \A k \in 1..Len(last.before) :
                (last.before[k].secondary = "False" /\ last.before[k].is_valid)
                    => last.before[k].id_string \in last.trace[i].tables

\* C2: with a database connection that lists its relations,
\* create_condition_temptables and fetch_all_results run to their end
\* whatever fails for one Condition: the method of every Condition of the
\* collection has been run to its end, and a Condition whose query failed
\* carries the error
C2_FailureIsolated ==
    (last.op \in {"create_condition_temptables", "fetch_all_results"}
        /\ last.fail # "relations" /\ coll.pg_conn = "conn") =>
    /\ last.exc = "none"
    /\ \A k \in 1..Len(coll.conditions) :
           \E i \in 1..Len(last.trace) :
               last.trace[i].k = k /\ last.trace[i].outcome = "none"
    /\ \A k \in last.failing :
           last.before[k].is_valid =>
               Len(coll.conditions[k].errors) > Len(last.before[k].errors)

\* C4: a Condition with is_valid False has its result attributes as __init__
\* left them, no statement naming its table was ever sent, and a call of
\* create_db_temptable or fetch_results_from_db on it sends nothing, raises
\* nothing and changes neither the object nor the session
C4_InvalidNeverEvaluated ==
    /\ \A k \in 1..Len(coll.conditions) :
           ~coll.conditions[k].is_valid =>
               /\ ResultsInitial(coll.conditions[k])
               /\ \A st \in sql : st.table # coll.conditions[k].id_string
               /\ coll.conditions[k].id_string \notin DOMAIN session
    /\ (last.op \in DbMethods /\ ~last.before[last.k].is_valid) =>
           /\ last.sent = <<>>
           /\ last.exc = "none"
           /\ coll.conditions = last.before
           /\ DOMAIN session = last.tables

\* C4 witness: create_db_temptable was called on an invalid Condition of a
\* collection that has a database connection
C4_Witness ==
    /\ last.op = "create_db_temptable"
    /\ ~last.before[last.k].is_valid
    /\ coll.pg_conn = "conn"
    /\ last.fail = "none"

\* C5: after add_condition with an expression that fails parsing, the
\* collection holds a Condition under the id of the arguments, with is_valid
\* False and a non-empty list of errors
C5_InvalidConditionKept ==
    (last.op = "add_condition"
        /\ Defect(lower(strip(eliminate_umlauts(last.arg.raw_condition))))) =>
    /\ last.exc = "none"
    /\ \E k \in 1..Len(coll.conditions) :
           /\ coll.conditions[k].id_string
                  = Site \o <<"_">> \o last.arg.master_alias
           /\ ~coll.conditions[k].is_valid
           /\ coll.conditions[k].errors # <<>>

-----------------------------------------------------------------------------
(* Claims about the attributes make_blocks sets *)

RECURSIVE Dedup(_, _)
Dedup(s, acc) ==
    IF s = <<>> THEN acc
    ELSE IF Head(s) \in Range(acc) THEN Dedup(Tail(s), acc)
    ELSE Dedup(Tail(s), Append(acc, Head(s)))

\* the fragments of c that become Blocks, each once, in the order in which
\* they first appear
FirstAppearance(c) ==
    Dedup(SelectSeq(Fragments(c), LAMBDA el : BlockLike(el) /\ ~BlockFails(el)),
          <<>>)

\* the alias of the Block of fragment el: the k-th new Block has number k - 1
AliasOf(c, el) ==
    cnd.master_alias \o <<"_">>
        \o str_int(IndexOf(FirstAppearance(c), el) - 1)

\* the alias expression of c: every token as it stands, every block-like
\* fragment replaced by the alias of its Block
ExpectedAlias(c) ==
    join(<<>>, [k \in 1..Len(Fragments(c)) |->
        LET el == Fragments(c)[k]
        IN  IF BlockLike(el) THEN AliasOf(c, el)
            ELSE alias_part(<<tokens[el], el>>)])

\* C11: after make_blocks on a condition without defect, blocks holds each
\* unique Block once, in the order of first appearance, and that order is
\* the order by alias
C11_BlocksInOrderOfAppearance ==
    (mb.called /\ ~Defect(cnd.condition)) =>
        /\ [k \in 1..Len(cnd.blocks) |-> cnd.blocks[k].raw_logic]
               = FirstAppearance(cnd.condition)
        /\ cnd.blocks = sorted_by_alias(cnd.blocks)

\* C12: after make_blocks on a condition without defect, the Condition is
\* valid and alias_condition is the condition with every block-like fragment
\* replaced by the alias of its Block, parentheses and connectives kept
C12_AliasConditionMirrorsTokens ==
    (mb.called /\ ~Defect(cnd.condition)) =>
        /\ cnd.is_valid
        /\ cnd.alias_condition = ExpectedAlias(cnd.condition)

\* C13: after make_blocks, secondary is True when some Block of blocks is
\* secondary and False otherwise, also when there is no Block
C13_SecondaryIffSecondaryBlock ==
    mb.called =>
        cnd.secondary = IF \E k \in 1..Len(cnd.blocks) : cnd.blocks[k].secondary
                        THEN "True" ELSE "False"

-----------------------------------------------------------------------------
(* Specification of the temp table of one valid Condition over the Blocks  *)
(* P1 and P2: the interval source yields the rows of every Block, and      *)
(* create_db_temptable runs the CREATE statement on them.                  *)

MaxTime == 3

Times == WindowFrom..(WindowFrom + MaxTime)

\* what the interval source can yield for one Block from time t on: ranges
\* of positive length with a boolean value, disjoint and in time order
RECURSIVE TablesFrom(_)
TablesFrom(t) ==
    {<<>>} \cup
    UNION {{<<Row(p[1], p[2], v)>> \o rest :
               v \in {"True", "False"}, rest \in TablesFrom(p[2])} :
           p \in {q \in Times \X Times : t <= q[1] /\ q[1] < q[2]}}

BlockTables == TablesFrom(WindowFrom)

ResultBlocks ==
    <<Block(<<"a">>, Site, 0, P1).obj, Block(<<"a">>, Site, 1, P2).obj>>

\* the element of idfied for one word of the condition (lines 219-246)
ResultPart(el) ==
    IF el = P1 THEN <<"block", ResultBlocks[1]>>
    ELSE IF el = P2 THEN <<"block", ResultBlocks[2]>>
    ELSE <<tokens[el], el>>

\* A valid Condition object after __init__ whose condition is the words lex
ResultCondition(lex) ==
    [finish_init(NewCondition(Site, <<"a">>, write(lex)))
     EXCEPT !.blocks = IF P2 \in Range(lex) THEN ResultBlocks
                       ELSE <<ResultBlocks[1]>>,
            !.alias_condition =
                join(<<>>, [k \in 1..Len(lex) |-> alias_part(ResultPart(lex[k]))]),
            !.secondary = "False",
            !.is_valid = TRUE]

ResultExprs ==
    {<<P1>>,
     <<P1, W_and, P2>>,
     <<P1, W_or, P2>>,
     <<W_not, P1, W_and, P2>>,
     <<W_not, <<"(">>, P1, W_or, P2, <<")">>>>,
     <<P1, W_or, P2, W_and, W_not, P1>>}

InitPlan ==
    /\ \E lex \in ResultExprs :
         coll = [NewCollection("conn")
                 EXCEPT !.conditions = <<ResultCondition(lex)>>]
    /\ source \in [{coll.conditions[1].blocks[k].alias :
                       k \in 1..Len(coll.conditions[1].blocks)} -> BlockTables]
    /\ session = <<>>
    /\ sql = {}
    /\ last = NoCall
    /\ nops = 0
    /\ tuples = <<>>
    /\ vo = VoIdle
    /\ cnd = NewCondition(Site, <<"a">>, <<>>)
    /\ mb = MbIdle
    /\ ident = IdIdle

CreateFromSource ==
    /\ nops = 0
    /\ \E fail \in {"none", "create"} :
         LET r == create_db_temptable(coll.conditions[1], coll.pg_conn, session,
                                      fail, create_sql(coll.conditions[1], source))
         IN  /\ coll' = [coll EXCEPT !.conditions[1] = r.self]
             /\ session' = r.tables
             /\ sql' = sql \cup Range(r.sent)
             /\ last' = [NoCall EXCEPT !.op = "create_db_temptable",
                            !.k = 1, !.fail = fail,
                            !.before = coll.conditions,
                            !.tables = DOMAIN session,
                            !.exc = r.exc, !.sent = r.sent]
    /\ nops' = nops + 1
    /\ UNCHANGED <<orderVars, parseVars, dataVars>>

\* fetch_results_from_db after create_db_temptable; the summary of a table
\* without rows is left to pandas and is not in the model
FetchFromPlan ==
    /\ nops = 1
    /\ coll.conditions[1].id_string \in DOMAIN session
           => session[coll.conditions[1].id_string] # <<>>
    /\ \E fail \in BOOLEAN :
         LET r == fetch_results_from_db(coll.conditions[1], coll.pg_conn,
                                        session, fail)
         IN  /\ coll' = [coll EXCEPT !.conditions[1] = r.self]
             /\ sql' = sql \cup Range(r.sent)
             /\ last' = [NoCall EXCEPT !.op = "fetch_results_from_db",
                            !.k = 1, !.failing = IF fail THEN {1} ELSE {},
                            !.before = coll.conditions,
                            !.tables = DOMAIN session,
                            !.exc = r.exc, !.sent = r.sent]
    /\ nops' = nops + 1
    /\ UNCHANGED <<session, orderVars, parseVars, dataVars>>

NextPlan == CreateFromSource

\* create_db_temptable, then fetch_results_from_db, on Block tables
SummaryExprs ==
    {<<P1>>,
     <<P1, W_and, P2>>,
     <<W_not, <<"(">>, P1, W_or, P2, <<")">>>>}

InitSummary ==
    /\ \E lex \in SummaryExprs :
         coll = [NewCollection("conn")
                 EXCEPT !.conditions = <<ResultCondition(lex)>>]
    /\ source \in [{coll.conditions[1].blocks[k].alias :
                       k \in 1..Len(coll.conditions[1].blocks)} -> BlockTables]
    /\ session = <<>>
    /\ sql = {}
    /\ last = NoCall
    /\ nops = 0
    /\ tuples = <<>>
    /\ vo = VoIdle
    /\ cnd = NewCondition(Site, <<"a">>, <<>>)
    /\ mb = MbIdle
    /\ ident = IdIdle

NextSummary == CreateFromSource \/ FetchFromPlan

SpecSummary == InitSummary /\ [][NextSummary]_vars

SpecPlan == InitPlan /\ [][NextPlan]_vars

\* the Condition of SpecPlan, its words and its temp table
PlanCondition == coll.conditions[1]
PlanWords == CHOOSE lex \in ResultExprs : write(lex) = PlanCondition.condition
PlanTable == session[PlanCondition.id_string]
PlanCreated ==
    /\ last.op = "create_db_temptable"
    /\ PlanCondition.id_string \in DOMAIN session

\* three-valued NOT, AND and OR on True, False and Unknown ("NULL")
Not3(a) == CASE a = "True" -> "False" [] a = "False" -> "True" [] OTHER -> "NULL"
And3(a, b) ==
    IF "False" \in {a, b} THEN "False"
    ELSE IF "NULL" \in {a, b} THEN "NULL" ELSE "True"
Or3(a, b) == Not3(And3(Not3(a), Not3(b)))

\* the value of a Block on a slice: that of the interval covering the slice,
\* Unknown when no interval covers it
CoverValue(t, r) ==
    LET cover == {k \in 1..Len(t) : t[k].vfrom <= r.vfrom /\ r.vuntil <= t[k].vuntil}
    IN  IF cover = {} THEN "NULL" ELSE t[CHOOSE k \in cover : TRUE].master

\* the reading of each condition of ResultExprs, a and b being the values of
\* P1 and P2
Expected(lex, a, b) ==
    CASE lex = <<P1>> -> a
      [] lex = <<P1, W_and, P2>> -> And3(a, b)
      [] lex = <<P1, W_or, P2>> -> Or3(a, b)
      [] lex = <<W_not, P1, W_and, P2>> -> And3(Not3(a), b)
      [] lex = <<W_not, <<"(">>, P1, W_or, P2, <<")">>>> -> Not3(Or3(a, b))
      [] lex = <<P1, W_or, P2, W_and, W_not, P1>> -> Or3(a, And3(b, Not3(a)))

\* C14: in the temp table of a Condition with more than one Block, the master
\* of every slice is the three-valued value of the condition on the values
\* the Blocks have on the slice, a Block without an interval covering the
\* slice counting as Unknown
C14_MasterIsThreeValued ==
    (PlanCreated /\ Len(PlanCondition.blocks) > 1) =>
        \A k \in 1..Len(PlanTable) :
            PlanTable[k].master =
                Expected(PlanWords,
                         CoverValue(source[ResultBlocks[1].alias], PlanTable[k]),
                         CoverValue(source[ResultBlocks[2].alias], PlanTable[k]))

\* a temp table of "not s1#x > 1 and s2#y < 2" with a slice where s1#x > 1
\* has no interval and master is Unknown, and a slice where master is True
C14_Witness ==
    /\ PlanCreated
    /\ PlanWords = <<W_not, P1, W_and, P2>>
    /\ \E k \in 1..Len(PlanTable) :
         PlanTable[k].cols = <<"NULL", "True">> /\ PlanTable[k].master = "NULL"
    /\ \E k \in 1..Len(PlanTable) :
         PlanTable[k].cols = <<"False", "True">> /\ PlanTable[k].master = "True"

\* every row the interval source yields, for any Block of the Condition
SourceRows ==
    UNION {Range(source[PlanCondition.blocks[i].alias]) :
              i \in 1..Len(PlanCondition.blocks)}

\* the slices follow each other in time without overlapping
InTimeOrder(t) ==
    /\ \A k \in 1..Len(t) : t[k].vfrom < t[k].vuntil
    /\ \A k \in 1..(Len(t) - 1) : t[k].vuntil <= t[k + 1].vfrom

\* slice r lies inside an interval of some Block
InsideBlock(r) ==
    \E b \in SourceRows : b.vfrom <= r.vfrom /\ r.vuntil <= b.vuntil

\* every instant of every Block interval lies inside a slice of t
BlocksCovered(t) ==
    \A b \in SourceRows : \A x \in b.vfrom..(b.vuntil - 1) :
        \E k \in 1..Len(t) : t[k].vfrom <= x /\ x < t[k].vuntil

\* C15: the rows of the temp table are in time order, do not overlap, and
\* cover exactly the union of the Block intervals: every slice lies inside
\* some Block's interval and every instant of a Block interval lies inside a
\* slice
C15_PartitionCoversUnion ==
    PlanCreated =>
        /\ InTimeOrder(PlanTable)
        /\ \A k \in 1..Len(PlanTable) : InsideBlock(PlanTable[k])
        /\ BlocksCovered(PlanTable)

\* C15 as the code has it: the rows are in time order, do not overlap and
\* contain every instant of every Block interval; a slice outside every
\* Block interval exists only for more than one Block, lies between the
\* first and the last boundary, and is NULL for every Block and for master
C15_PartitionCoversSpan ==
    PlanCreated =>
        /\ InTimeOrder(PlanTable)
        /\ BlocksCovered(PlanTable)
        /\ \A k \in 1..Len(PlanTable) :
             \/ InsideBlock(PlanTable[k])
             \/ /\ Len(PlanCondition.blocks) > 1
                /\ \E b \in SourceRows : b.vuntil <= PlanTable[k].vfrom
                /\ \E b \in SourceRows : PlanTable[k].vuntil <= b.vfrom
                /\ \A i \in 1..Len(PlanCondition.blocks) :
                       PlanTable[k].cols[i] = "NULL"
                /\ PlanTable[k].master = "NULL"

\* a temp table of two Blocks with a slice between their intervals
C15_Witness ==
    /\ PlanCreated
    /\ Len(PlanCondition.blocks) = 2
    /\ \E k \in 1..Len(PlanTable) :
         ~InsideBlock(PlanTable[k]) /\ PlanTable[k].master = "NULL"
    /\ \E k \in 1..Len(PlanTable) : InsideBlock(PlanTable[k])

\* the starts and ends of all Block intervals
Boundaries == UNION {{b.vfrom, b.vuntil} : b \in SourceRows}

\* Block A True on [0,10) and Block B True on [5,15), on the time scale of
\* the model: A on two units from the start of the window, B on two units
\* beginning one unit later
ExampleSource ==
    (ResultBlocks[1].alias :> <<Row(WindowFrom, WindowFrom + 2, "True")>>) @@
    (ResultBlocks[2].alias :> <<Row(WindowFrom + 1, WindowFrom + 3, "True")>>)

\* C16: for more than one Block every slice of the temp table is bounded by
\* two consecutive boundaries of the Block intervals, so it lies wholly
\* inside or wholly outside every Block interval; and with A True on [0,10),
\* B True on [5,15), "A and B" has master True on the one slice [5,10)
C16_ElementarySlices ==
    (PlanCreated /\ Len(PlanCondition.blocks) > 1) =>
        /\ \A k \in 1..Len(PlanTable) :
             /\ PlanTable[k].vfrom \in Boundaries
             /\ PlanTable[k].vuntil \in Boundaries
             /\ PlanTable[k].vfrom < PlanTable[k].vuntil
             /\ \A x \in Boundaries :
                    ~(PlanTable[k].vfrom < x /\ x < PlanTable[k].vuntil)
             /\ \A b \in SourceRows :
                    \/ b.vfrom <= PlanTable[k].vfrom /\ PlanTable[k].vuntil <= b.vuntil
                    \/ b.vuntil <= PlanTable[k].vfrom
                    \/ PlanTable[k].vuntil <= b.vfrom
        /\ (source = ExampleSource /\ PlanWords = <<P1, W_and, P2>>) =>
               {<<PlanTable[k].vfrom, PlanTable[k].vuntil>> :
                   k \in {j \in 1..Len(PlanTable) : PlanTable[j].master = "True"}}
               = {<<WindowFrom + 1, WindowFrom + 2>>}

\* the temp table of "A and B" for the example: three slices, the middle one
\* True
C16_Witness ==
    /\ PlanCreated
    /\ source = ExampleSource
    /\ PlanWords = <<P1, W_and, P2>>
    /\ Len(PlanTable) = 3
    /\ PlanTable[2].master = "True"
    /\ PlanTable[1].master = "NULL"

-----------------------------------------------------------------------------
(* Specification of fetch_results_from_db on one Condition whose temp table *)
(* exists in the session: the SELECT returns the rows of the table.        *)

MaxRows == 2

\* the rows a temp table can hold: vfrom <= vuntil, master True, False or NULL
FetchTables ==
    SeqsUpTo({Row(p[1], p[2], v) :
                 p \in {q \in Times \X Times : q[1] <= q[2]},
                 v \in {"True", "False", "NULL"}}, MaxRows) \ {<<>>}

InitFetch ==
    /\ \E valid \in BOOLEAN :
         coll = [NewCollection("conn")
                 EXCEPT !.conditions = <<ConditionObject(<<"a">>, <<>>, valid)>>]
    /\ \E t \in FetchTables : session = (coll.conditions[1].id_string :> t)
    /\ sql = {}
    /\ last = NoCall
    /\ nops = 0
    /\ source = <<>>
    /\ tuples = <<>>
    /\ vo = VoIdle
    /\ cnd = NewCondition(Site, <<"a">>, <<>>)
    /\ mb = MbIdle
    /\ ident = IdIdle

FetchFromTable ==
    /\ nops = 0
    /\ \E fail \in BOOLEAN :
         LET r == fetch_results_from_db(coll.conditions[1], coll.pg_conn,
                                        session, fail)
         IN  /\ coll' = [coll EXCEPT !.conditions[1] = r.self]
             /\ sql' = sql \cup Range(r.sent)
             /\ last' = [NoCall EXCEPT !.op = "fetch_results_from_db",
                            !.k = 1, !.failing = IF fail THEN {1} ELSE {},
                            !.before = coll.conditions,
                            !.tables = DOMAIN session,
                            !.exc = r.exc, !.sent = r.sent]
    /\ nops' = nops + 1
    /\ UNCHANGED <<session, orderVars, parseVars, dataVars>>

NextFetch == FetchFromTable

SpecFetch == InitFetch /\ [][NextFetch]_vars

\* the Condition of SpecFetch, the rows of its table, and the call having
\* read them
Fetched == coll.conditions[1]
FetchedRows == session[Fetched.id_string]
FetchDone ==
    /\ last.op = "fetch_results_from_db"
    /\ last.failing = {}
    /\ Fetched.is_valid

\* the span of the rows: from the least vfrom to the greatest vuntil
SpanOf(t) ==
    MaxOf({t[k].vuntil : k \in 1..Len(t)}) - MinOf({t[k].vfrom : k \in 1..Len(t)})

\* the durations of the first k rows of t whose master is v, added up
RECURSIVE DurationOf(_, _, _)
DurationOf(t, k, v) ==
    IF k = 0 THEN 0
    ELSE DurationOf(t, k - 1, v)
         + (IF t[k].master = v THEN t[k].vuntil - t[k].vfrom ELSE 0)

C18_ZeroSpanIsNoData ==
    (FetchDone /\ SpanOf(FetchedRows) = 0) =>
        /\ last.exc = "none"
        /\ Fetched.percentage_nodata = <<1, 1>>
        /\ Fetched.percentage_valid = <<0, 1>>
        /\ Fetched.percentage_notvalid = <<0, 1>>

\* C19: no error is lost: an exception raised by the call made for a
\* Condition inside create_condition_temptables (either round) or
\* fetch_all_results has left an error in the list of that Condition or of
\* the collection, and an add_condition that raised has left one in the list
\* of the collection or of the stored Condition
C19_NoErrorLost ==
    /\ last.op \in {"create_condition_temptables", "fetch_all_results"} =>
           \A i \in 1..Len(last.trace) :
               last.trace[i].outcome # "none" =>
                   \/ Len(coll.conditions[last.trace[i].k].errors)
                          > Len(last.before[last.trace[i].k].errors)
                   \/ coll.errors # <<>>
    /\ (last.op = "add_condition" /\ last.exc # "none") =>
           \/ coll.errors # <<>>
           \/ \E k \in 1..Len(coll.conditions) :
                  /\ coll.conditions[k].master_alias = last.arg.master_alias
                  /\ coll.conditions[k].errors # <<>>

\* C20: no two Conditions of the collection share an id_string, and an
\* add_condition whose id_string is already present adds no Condition,
\* leaves the stored Conditions unchanged and reports the error in the
\* collection's error list
C20_NoDuplicateIds ==
    /\ \A j \in 1..Len(coll.conditions), k \in 1..Len(coll.conditions) :
           coll.conditions[j].id_string = coll.conditions[k].id_string => j = k
    /\ (last.op = "add_condition"
           /\ \E k \in 1..Len(last.before) :
                  last.before[k].id_string = Site \o <<"_">> \o last.arg.master_alias) =>
           /\ coll.conditions = last.before
           /\ [kind |-> "reserved", id |-> Site \o <<"_">> \o last.arg.master_alias]
                  \in Range(coll.errors)

\* the k-th Condition is valid and secondary, and no Condition of the
\* collection has the id_string its Block refers to
Dangling(conds, k) ==
    /\ conds[k].is_valid
    /\ conds[k].secondary = "True"
    /\ \A j \in 1..Len(conds) :
           conds[j].id_string # BlockSource(conds[k], conds[k].blocks[1])

\* C21: after create_condition_temptables on a working connection every
\* Condition with a dangling reference carries an error and is no longer
\* valid, and every valid primary Condition of the collection has its table
C21_DanglingReferenceDetected ==
    (last.op = "create_condition_temptables" /\ last.fail = "none"
        /\ coll.pg_conn = "conn"
        /\ \E k \in 1..Len(last.before) : Dangling(last.before, k)) =>
    /\ \A k \in 1..Len(last.before) :
           Dangling(last.before, k) =>
               /\ Len(coll.conditions[k].errors) > Len(last.before[k].errors)
               /\ ~coll.conditions[k].is_valid
    /\ \A k \in 1..Len(last.before) :
           (last.before[k].is_valid /\ last.before[k].secondary = "False") =>
               last.before[k].id_string \in DOMAIN session

-----------------------------------------------------------------------------
(* Specification of the life of one Condition after __init__: the methods  *)
(* that work on it, of the Condition and of its collection, are called in  *)
(* any order, MaxCalls times at most.                                      *)

MaxCalls == 3

InitLife ==
    /\ \E c \in ConditionObjects(1), pg_conn \in {"conn", "None"} :
           coll = [NewCollection(pg_conn) EXCEPT !.conditions = <<c>>]
    /\ session = <<>>
    /\ sql = {}
    /\ last = NoCall
    /\ nops = 0
    /\ source = <<>>
    /\ tuples = <<>>
    /\ vo = VoIdle
    /\ cnd = NewCondition(Site, <<"a">>, <<>>)
    /\ mb = MbIdle
    /\ ident = IdIdle

\* what a call leaves in last
LifeCall(op, r) ==
    [NoCall EXCEPT !.op = op, !.k = 1, !.before = coll.conditions,
                   !.tables = DOMAIN session, !.exc = r.exc, !.sent = r.sent]

LifeCreate ==
    /\ nops < MaxCalls
    /\ \E e \in EngineOutcomes :
         LET r == create_db_temptable(coll.conditions[1], coll.pg_conn,
                                      session, e.fail, e.rows)
         IN  /\ coll' = [coll EXCEPT !.conditions[1] = r.self]
             /\ session' = r.tables
             /\ sql' = sql \cup Range(r.sent)
             /\ last' = [LifeCall("create_db_temptable", r) EXCEPT !.fail = e.fail]
    /\ nops' = nops + 1
    /\ UNCHANGED <<orderVars, parseVars, dataVars>>

LifeFetch ==
    /\ nops < MaxCalls
    /\ \E fail \in BOOLEAN :
         LET r == fetch_results_from_db(coll.conditions[1], coll.pg_conn,
                                        session, fail)
         IN  /\ coll' = [coll EXCEPT !.conditions[1] = r.self]
             /\ sql' = sql \cup Range(r.sent)
             /\ last' = LifeCall("fetch_results_from_db", r)
    /\ nops' = nops + 1
    /\ UNCHANGED <<session, orderVars, parseVars, dataVars>>

LifeSetSensorIds ==
    /\ nops < MaxCalls
    /\ \E pairs \in {"None", "given"}, failing \in BOOLEAN :
         LET r == set_sensor_ids(coll, pairs, failing)
         IN  /\ coll' = r.coll
             /\ sql' = sql \cup Range(r.sent)
             /\ last' = LifeCall("set_sensor_ids", r)
    /\ nops' = nops + 1
    /\ UNCHANGED <<session, orderVars, parseVars, dataVars>>

LifeCreateAll ==
    /\ nops < MaxCalls
    /\ \E e \in EngineOutcomes, relfail \in BOOLEAN :
         LET r == create_condition_temptables(coll, session, e.fail, e.rows,
                                              relfail)
         IN  /\ coll' = r.coll
             /\ session' = r.tables
             /\ sql' = sql \cup Range(r.sent)
             /\ last' = LifeCall("create_condition_temptables", r)
    /\ nops' = nops + 1
    /\ UNCHANGED <<orderVars, parseVars, dataVars>>

LifeFetchAll ==
    /\ nops < MaxCalls
    /\ \E failing \in {{}, {1}} :
         LET r == fetch_all_results(coll, session, failing)
         IN  /\ coll' = r.coll
             /\ sql' = sql \cup Range(r.sent)
             /\ last' = LifeCall("fetch_all_results", r)
    /\ nops' = nops + 1
    /\ UNCHANGED <<session, orderVars, parseVars, dataVars>>

NextLife ==
    \/ LifeCreate
    \/ LifeFetch
    \/ LifeSetSensorIds
    \/ LifeCreateAll
    \/ LifeFetchAll

SpecLife == InitLife /\ [][NextLife]_vars

\* what make_blocks sets on a Condition
ParseResults(self) ==
    <<self.is_valid, self.blocks, self.alias_condition, self.secondary>>

-----------------------------------------------------------------------------
(* Specification of to_pg_identifier as a function of its argument: a few  *)
(* characters of every kind, followed by enough letters to reach the length *)
(* limit.                                                                   *)

MaxIdChars == 3

IdChars == {"A", "b", "a_uml", "O_uml", "a_ring", "e_acute", "7", "_", " ", "-"}

IdInputs ==
    {seed \o [i \in 1..n |-> "z"] :
        seed \in SeqsUpTo(IdChars, MaxIdChars),
        n \in {0, MaxIdLen - MaxIdChars, MaxIdLen - 1, MaxIdLen}}

InitIdent ==
    /\ \E x \in IdInputs : ident = [IdIdle EXCEPT !.x = x]
    /\ source = <<>>
    /\ tuples = <<>>
    /\ vo = VoIdle
    /\ cnd = NewCondition(<<"s">>, <<"a">>, <<>>)
    /\ mb = MbIdle
    /\ CollIdle

ToPgIdentifier ==
    /\ ~ident.called
    /\ LET r == to_pg_identifier(ident.x)
       IN  ident' = [ident EXCEPT !.called = TRUE, !.exc = r.exc, !.val = r.val]
    /\ UNCHANGED <<source, orderVars, parseVars, collVars>>

NextIdent == ToPgIdentifier

SpecIdent == InitIdent /\ [][NextIdent]_vars

\* the characters a-z, 0-9 and _
PlainChars == Range(LowerSeq) \cup Range(DigitSeq) \cup {"_"}

\* what every returned identifier has: no leading digit, at most 40
\* characters, at least one
IdShape(val) ==
    /\ val # <<>>
    /\ Len(val) <= MaxIdLen
    /\ val[1] \notin Range(DigitSeq)

Violations(tpl) ==
    IF tpl = <<>> THEN 0
    ELSE (IF FirstOk(tpl) THEN 0 ELSE 1) + (IF LastOk(tpl) THEN 0 ELSE 1)
         + Cardinality({i \in 1..(Len(tpl) - 1) :
                           <<tpl[i][1], tpl[i + 1][1]>> \notin allowed_pairs})

\* C24: validate_order goes through the whole list: it raises nothing and
\* records one error for every rule the list breaks
C24_EveryViolationReported ==
    vo.called => (vo.exc = "none" /\ Len(vo.errors) = Violations(tuples))

-----------------------------------------------------------------------------
(* Specification of make_blocks on condition strings with "in" predicates. *)
(* mb keeps the locals new_sp and idfied as the call leaves them.          *)

MaxFrag == 6        \* most lexemes in a condition string with "in"

X_in == <<"x", " ", "i", "n">>

InLexemes == {<<"(">>, <<")">>, W_and, X_in, <<"1">>}

InStrings(n) == {write(lex) : lex \in SeqsUpTo(InLexemes, n)}

InitMerge ==
    /\ \E c \in InStrings(MaxFrag) : cnd = NewCondition(<<"s">>, <<"a">>, c)
    /\ mb = MbIdle
    /\ ident = IdIdle
    /\ tuples = <<>>
    /\ vo = VoIdle
    /\ CollIdle
    /\ source = <<>>

MakeBlocksLocals ==
    /\ ~mb.called
    /\ LET f == mb_from166(mb_frame(cnd))
       IN  /\ cnd' = f.self
           /\ mb' = [called |-> TRUE, exc |-> f.exc,
                     new_sp |-> f.new_sp, idfied |-> f.idfied]
    /\ UNCHANGED <<orderVars, collVars, dataVars>>

NextMerge == MakeBlocksLocals

SpecMerge == InitMerge /\ [][NextMerge]_vars

EndsWith(s, suffix) ==
    Len(s) >= Len(suffix) /\ SubSeq(s, Len(s) - Len(suffix) + 1, Len(s)) = suffix

HasIn(s) == contains(s, <<" ", "i", "n", " ">>)

\* C25: when make_blocks gets past line 205 (the parentheses balance),
\* in the list it builds at lines 195-205 only the last
\* element may end with " in" or contain " in " without ending with ")";
\* an element with " in " holds at most one ")", its last character; the
\* characters of the fragments are all kept; "x in (1)" is one element that
\* is neither parenthesis, and "(x in (1))" keeps its outer parentheses as
\* elements of their own.
C25_InAbsorbsParentheses ==
    (mb.called /\ mb.exc # "AttributeError") =>
        LET new_sp == mb.new_sp
            n == Len(new_sp)
        IN  /\ \A k \in 1..n :
                  /\ k < n => ~EndsWith(new_sp[k], <<" ", "i", "n">>)
                  /\ (k < n /\ HasIn(new_sp[k])) => EndsWith(new_sp[k], <<")">>)
                  /\ HasIn(new_sp[k]) =>
                        \A j \in 1..(Len(new_sp[k]) - 1) : new_sp[k][j] # ")"
            /\ SelectSeq(join(<<>>, new_sp), LAMBDA ch : ch # " ")
                  = SelectSeq(cnd.condition, LAMBDA ch : ch # " ")
            /\ cnd.condition = write(<<X_in, <<"(">>, <<"1">>, <<")">>>>)
                  => new_sp = <<X_in \o <<" ", "(", "1", ")">>>>
            /\ cnd.condition
                  = write(<<<<"(">>, X_in, <<"(">>, <<"1">>, <<")">>, <<")">>>>)
                  => new_sp = << <<"(">>, X_in \o <<" ", "(", "1", ")">>, <<")">> >>

C25_Witness ==
    /\ mb.called
    /\ cnd.condition = <<"(">> \o X_in \o <<" ", "(", "1", ")", ")">>
    /\ mb.new_sp = << <<"(">>, X_in \o <<" ", "(", "1", ")">>, <<")">> >>

\* C26: after make_blocks, the Blocks of the Condition are the fragments
\* that become Blocks, each once, and the k-th of them in order of first
\* appearance has the alias master_alias, "_", k - 1: the numbers run from 0
\* without gap and no two Blocks share an alias
C26_OrderNumbersWithoutGaps ==
    mb.called =>
        LET first == FirstAppearance(cnd.condition)
        IN  /\ {<<cnd.blocks[k].raw_logic, cnd.blocks[k].alias>> :
                    k \in 1..Len(cnd.blocks)}
                 = {<<first[k], cnd.master_alias \o <<"_">> \o str_int(k - 1)>> :
                    k \in 1..Len(first)}
            /\ \A j, k \in 1..Len(cnd.blocks) :
                  cnd.blocks[j].alias = cnd.blocks[k].alias => j = k

-----------------------------------------------------------------------------
(* Properties of the single-Block query and of the summary that            *)
(* fetch_results_from_db draws from a table made by create_db_temptable.   *)

Triples(t) == {<<t[k].vfrom, t[k].vuntil, t[k].master>> : k \in 1..Len(t)}

PlanFetched ==
    /\ last.op = "fetch_results_from_db"
    /\ last.failing = {}
    /\ PlanCondition.id_string \in DOMAIN session

\* C27: the temp table of a Condition with one Block has exactly the
\* intervals of the Block, none added and none removed, and master of each
\* row is the value of the Block on that interval
C27_SingleBlockKeepsItsIntervals ==
    (PlanCreated /\ Len(PlanCondition.blocks) = 1) =>
        LET t == source[PlanCondition.blocks[1].alias]
        IN  /\ Len(PlanTable) = Len(t)
            /\ Triples(PlanTable) = Triples(t)
            /\ \A k \in 1..Len(PlanTable) :
                  PlanTable[k].cols = <<PlanTable[k].master>>

\* a one-Block table of two intervals with a gap between them
C27_Witness ==
    /\ PlanCreated
    /\ Len(PlanCondition.blocks) = 1
    /\ Len(PlanTable) = 2
    /\ PlanTable[1].vuntil < PlanTable[2].vfrom
    /\ PlanTable[1].master # PlanTable[2].master

\* C28: for a Condition with one Block, the summary fetched from the table
\* of the one-Block query equals the summary of the table the query over
\* master_ranges would make: same data_from, data_until, valid, not valid
\* and no-data durations; the two tables have the same rows but for the
\* rows of the second that lie in no interval of the Block, whose master is
\* NULL
C28_ShortcutEqualsGeneral ==
    (PlanFetched /\ Len(PlanCondition.blocks) = 1) =>
        LET c == PlanCondition
            many == create_sql_many(c, source)
            g == summarize(last.before[1], many).self
        IN  /\ c.data_from = g.data_from
            /\ c.data_until = g.data_until
            /\ c.tottime_valid = g.tottime_valid
            /\ c.tottime_notvalid = g.tottime_notvalid
            /\ c.tottime_nodata = g.tottime_nodata
            /\ Triples(PlanTable) = {r \in Triples(many) : r[3] # "NULL"}
            /\ \A k \in 1..Len(many) :
                  many[k].master = "NULL" => ~InsideBlock(many[k])

\* a fetched one-Block Condition whose intervals leave a gap
C28_Witness ==
    /\ PlanFetched
    /\ Len(PlanCondition.blocks) = 1
    /\ Len(create_sql_many(PlanCondition, source)) > Len(PlanTable)
    /\ PlanCondition.tottime_nodata > 0
    /\ PlanCondition.tottime_valid > 0
    /\ PlanCondition.tottime_notvalid > 0

\* C29: after fetch_results_from_db on a table made from Blocks with
\* disjoint intervals, no duration is negative and tottime_valid and
\* tottime_notvalid together do not exceed tottime
C29_NoDataNotNegative ==
    PlanFetched =>
        LET c == PlanCondition
        IN  /\ c.tottime_nodata >= 0
            /\ c.tottime_valid >= 0
            /\ c.tottime_notvalid >= 0
            /\ c.tottime_valid + c.tottime_notvalid <= c.tottime

\* a fetched two-Block Condition with valid, not valid and no-data time
C29_Witness ==
    /\ PlanFetched
    /\ Len(PlanCondition.blocks) = 2
    /\ PlanCondition.tottime_nodata > 0
    /\ PlanCondition.tottime_valid > 0
    /\ PlanCondition.tottime_notvalid > 0
    /\ PlanCondition.tottime
         = PlanCondition.tottime_valid + PlanCondition.tottime_notvalid
           + PlanCondition.tottime_nodata

-----------------------------------------------------------------------------
(* create_db_temptable whose CREATE statement fails after its DROP *)

CreateFailed ==
    /\ last.op = "create_db_temptable"
    /\ last.before[1].is_valid
    /\ coll.pg_conn = "conn"
    /\ last.fail = "create"

\* C30: after create_db_temptable whose DROP went through and whose CREATE
\* failed, both statements were sent in that order, the Condition has one
\* more error, 'Failed to create temp table', the session has no table under
\* id_string, also when it had one before the call, none under the alias of
\* a Block, and its other tables are as before
C30_FailedCreateLeavesNoTable ==
    CreateFailed =>
        LET c == coll.conditions[1]
        IN  /\ last.sent = <<Stmt("DROP", c.id_string), Stmt("CREATE", c.id_string)>>
            /\ c.errors = Append(last.before[1].errors, [kind |-> "create_failed"])
            /\ last.exc = "none"
            /\ c.id_string \notin DOMAIN session
            /\ \A k \in 1..Len(c.blocks) : c.blocks[k].alias \notin DOMAIN session
            /\ DOMAIN session = last.tables \ {c.id_string}

\* the table of the Condition existed before the call that failed to
\* create it anew
C30_Witness ==
    /\ CreateFailed
    /\ coll.conditions[1].id_string \in last.tables
    /\ coll.conditions[1].id_string \notin DOMAIN session

=============================================================================
